---- MODULE Spec2Model ----
(***************************************************************************)
(* Guild playback orchestrator of mrvn-bot: the command handlers and the   *)
(* playback-ended handler of mrvn-front-discord/src/frontend.rs, run       *)
(* against the Guild Model (crate mrvn-model) and the Speaker Pool (crate  *)
(* mrvn-back-ytdl, brain/speaker), for one guild.                          *)
(***************************************************************************)
EXTENDS Integers, Sequences, FiniteSets, TLC

\* ------------------------------------------------------------------ bounds
\* Total number of Items the media resolver hands out in one behaviour.
MaxSongs == 3
\* Largest number of Items one resolution returns.
MaxResolved == 2
\* Largest occupancy (listener count) the membership lookup reports.
MaxOccupancy == 5

\* ------------------------------------------------------------ identities
Users == {"u1", "u2"}
UserOrder == <<"u1", "u2">>
Channels == {"c1", "c2"}
Speakers == {"s1", "s2"}
SpeakerOrder == <<"s1", "s2">>
Procs == {"p1", "p2"}
MsgChannels == {"m1", "m2"}
VoteKinds == {"Skip", "Stop"}

NoUser == "none"
NoChannel == "none"
NoItem == [id |-> 0, user |-> NoUser]
ChanOpt == Channels \cup {NoChannel}

\* A delegate is the snapshot of voice-channel membership one handler takes.
\* A handler only asks it where the commanding user is and who is in the one
\* channel it decides about: the snapshot is that channel and its members.
NoDelegate == [channel |-> NoChannel, members |-> {}]

\* current_voice_channel(user).
UserVoiceChannel(delegate, user) ==
    IF user \in delegate.members THEN delegate.channel ELSE NoChannel

IsUserInChannel(delegate, user, channel) ==
    channel # NoChannel /\ delegate.channel = channel /\ user \in delegate.members

\* The snapshots a command of `user` can see when the users U are spread over
\* the channels C: the user in no channel, or in a channel with others.
DelegatesFor(user, U, C) ==
    {NoDelegate} \cup {[channel |-> c, members |-> M] :
                          c \in C, M \in {N \in SUBSET U : user \in N}}

\* The same, for the commands that ask only where the commanding user is.
DelegatesAlone(user, C) ==
    {NoDelegate} \cup {[channel |-> c, members |-> {user}] : c \in C}

\* The snapshots the playback-ended handler can see of a Speaker's channel.
DelegatesAt(channel, U) == {[channel |-> channel, members |-> M] : M \in SUBSET U}

VARIABLES
    queues,      \* Guild Model: per-user sub-queue of Items
    playing,     \* Guild Model: per channel, the active Item (NoItem: not active)
    stopped,     \* Guild Model: per channel, the explicit-stop marker
    cursor,      \* Guild Model: per channel, the user served last (round robin)
    votes,       \* Guild Model: per channel and vote kind, the voters recorded
    msgChannel,  \* Guild Model: where asynchronous notifications are posted
    speakers,    \* Speaker Pool: per Speaker, bound channel, state, current Item
    ended,       \* completion notifications spawned and not yet handled
    guildLock,   \* holder of the guild's Guild Model lock
    pc,          \* per command task: "idle", "waiting" (for the lock), "locked"
    handling,    \* the notification the playback-ended task is deciding on
    last,        \* what the handler that ran in the last step decided
    rival,       \* a play attempt decided while another command was waiting
    cast,        \* per channel and vote kind, who voted on the current Item
    nextId,      \* next Item id the media resolver hands out
    poolLock,    \* holder of the guild's Speaker Pool lock
    other,       \* a handler of another guild, and that guild's two locks
    ack          \* per command task: the deferred acknowledgement and result

model == <<queues, playing, stopped, cursor, votes, msgChannel>>
pool == <<speakers, ended>>
vars == <<queues, playing, stopped, cursor, votes, msgChannel, speakers, ended,
          guildLock, pc, handling, last, rival, cast, nextId, poolLock, other,
          ack>>
locks == <<poolLock, other>>

\* --------------------------------------------------------------- helpers
Max(a, b) == IF a >= b THEN a ELSE b

Last(s) == s[Len(s)]

Front(s) == SubSeq(s, 1, Len(s) - 1)

IsPrefix(s, t) == Len(s) <= Len(t) /\ SubSeq(t, 1, Len(s)) = s

\* The Guild Model state as one record, so that operations are functions on it.
GM == [queues |-> queues, playing |-> playing, stopped |-> stopped,
       cursor |-> cursor, votes |-> votes]

FreshVotes == [k \in VoteKinds |-> {}]

\* ---------------------------------------------------------- Guild Model
\* enqueue(user, items): append to the user's sub-queue.
PushEntries(g, user, items) ==
    [g EXCEPT !.queues[user] = @ \o items]

\* replace_latest(user, maybe_channel, item).
ReplaceEntry(g, user, maybeChannel, item) ==
    IF g.queues[user] # <<>>
    THEN [status |-> "ReplacedInQueue", old |-> Last(g.queues[user]),
          channel |-> NoChannel,
          g |-> [g EXCEPT !.queues[user] = Front(@) \o <<item>>]]
    ELSE IF maybeChannel # NoChannel /\ g.playing[maybeChannel].user = user
    THEN [status |-> "ReplacedCurrent", old |-> NoItem,
          channel |-> maybeChannel,
          g |-> PushEntries(g, user, <<item>>)]
    ELSE [status |-> "Queued", old |-> NoItem, channel |-> NoChannel,
          g |-> PushEntries(g, user, <<item>>)]

\* Position of a user in the fixed order the round robin walks.
UserIndex(u) == CHOOSE i \in 1..Len(UserOrder) : UserOrder[i] = u

\* Users in the order the round robin tries them for a channel: the ones after
\* the user served last, then around to that user.
RoundRobinOrder(cur) ==
    IF cur = NoUser THEN UserOrder
    ELSE LET i == UserIndex(cur)
         IN SubSeq(UserOrder, i + 1, Len(UserOrder)) \o SubSeq(UserOrder, 1, i)

\* Users with a queued Item reachable from the channel.
Reachable(g, delegate, channel) ==
    {u \in Users : g.queues[u] # <<>> /\ IsUserInChannel(delegate, u, channel)}

\* The user whose Item is selected next for the channel, or NoUser.
NextUser(g, delegate, channel) ==
    LET order == RoundRobinOrder(g.cursor[channel])
        hits == {i \in 1..Len(order) : order[i] \in Reachable(g, delegate, channel)}
    IN IF hits = {} THEN NoUser
       ELSE order[CHOOSE i \in hits : \A j \in hits : i <= j]

\* A selection that leaves the channel's vote trackers as they are.
SelectEntryKeepsVotes(g, channel, u) ==
    [g EXCEPT !.queues[u] = Tail(@),
              !.cursor[channel] = u,
              !.playing[channel] = Head(g.queues[u]),
              !.stopped[channel] = FALSE]

\* Selection shared by next_for_channel and next_for_channel_after_finish:
\* pop the Item, advance the cursor, mark the channel active, clear the stop
\* marker, start fresh vote trackers.
SelectEntry(g, channel, u) ==
    [g EXCEPT !.queues[u] = Tail(@),
              !.cursor[channel] = u,
              !.playing[channel] = Head(g.queues[u]),
              !.stopped[channel] = FALSE,
              !.votes[channel] = FreshVotes]

\* next_for_channel(channel).
NextChannelEntry(g, delegate, channel) ==
    IF g.playing[channel] # NoItem
    THEN [status |-> "AlreadyPlaying", item |-> NoItem, g |-> g]
    ELSE LET u == NextUser(g, delegate, channel)
         IN IF u = NoUser
            THEN [status |-> "NoneAvailable", item |-> NoItem, g |-> g]
            ELSE [status |-> "Entry", item |-> Head(g.queues[u]),
                  g |-> SelectEntry(g, channel, u)]

\* next_for_channel_after_finish(channel).
NextChannelEntryFinished(g, delegate, channel) ==
    LET u == NextUser(g, delegate, channel)
    IN IF u = NoUser
       THEN [item |-> NoItem, g |-> [g EXCEPT !.playing[channel] = NoItem]]
       ELSE [item |-> Head(g.queues[u]), g |-> SelectEntry(g, channel, u)]

\* set_stopped(channel) / is_stopped(channel).
SetChannelStopped(g, channel) ==
    [g EXCEPT !.stopped[channel] = TRUE, !.playing[channel] = NoItem]

IsChannelStopped(g, channel) == g.stopped[channel]

\* Vote threshold from the channel's occupancy: half of it, at least 1.
VoteThreshold(occupancy) == Max(1, (occupancy + 1) \div 2)

\* vote(kind, channel, voter).
VoteForSkip(g, occupancy, kind, channel, voter) ==
    IF g.playing[channel] = NoItem
    THEN [status |-> "NothingPlaying", count |-> 0, g |-> g]
    ELSE IF voter \in g.votes[channel][kind]
    THEN [status |-> "AlreadyVoted", count |-> 0, g |-> g]
    ELSE LET recorded == g.votes[channel][kind] \cup {voter}
             needed == VoteThreshold(occupancy)
         IN IF Cardinality(recorded) >= needed
            THEN [status |-> "Success", count |-> 0,
                  g |-> [g EXCEPT !.votes[channel][kind] = {}]]
            ELSE [status |-> "NeedsMoreVotes",
                  count |-> needed - Cardinality(recorded),
                  g |-> [g EXCEPT !.votes[channel][kind] = recorded]]

\* ---------------------------------------------------------- Speaker Pool
IdleSpeaker == [channel |-> NoChannel, state |-> "Idle", item |-> NoItem,
                started |-> NoChannel]

ThePool == [speakers |-> speakers, ended |-> ended]

IsActive(sp) == sp.state \in {"Playing", "Paused"}

\* find_to_play_in(channel): a Speaker already bound there and Idle, or else
\* any free (unbound) Speaker; the empty set stands for None.
FindToPlayInChannel(P, channel) ==
    LET here == {s \in Speakers : P.speakers[s].channel = channel
                                  /\ P.speakers[s].state = "Idle"}
        free == {s \in Speakers : P.speakers[s].channel = NoChannel
                                  /\ P.speakers[s].state = "Idle"}
    IN IF here # {} THEN here ELSE free

\* find_active_in(channel): the Speaker bound to the channel and playing or
\* paused; the empty set stands for None.
FindActiveInChannel(P, channel) ==
    {s \in Speakers : P.speakers[s].channel = channel /\ IsActive(P.speakers[s])}

\* An EndedDelegate that drops the notification it is invoked with.
OnEndedDrops(spawned, n) == spawned

\* EndedDelegate::on_ended: the callback play registered spawns the task that
\* handles the end of the playback.
OnEnded(spawned, n) == spawned \cup {n}

\* The playback of a Speaker ends: the Speaker is Idle, still bound, and the
\* callback registered by play is invoked (once), which spawns the handler.
EndPlayback(P, s) ==
    [speakers |-> [P.speakers EXCEPT ![s].state = "Idle", ![s].item = NoItem,
                                     ![s].started = NoChannel],
     ended |-> OnEnded(P.ended, [speaker |-> s, started |-> P.speakers[s].started,
                                 item |-> P.speakers[s].item])]

\* stop(handle): {Playing, Paused} -> Stopping -> Idle, which ends the
\* playback; idempotent on a Speaker that is not playing.
SpeakerStop(P, s) ==
    IF IsActive(P.speakers[s]) THEN EndPlayback(P, s) ELSE P

\* play(handle, channel, item, callback).  A playback still running on the
\* Speaker ends.  On failure the Speaker is released and no callback is
\* registered for the attempt.
SpeakerPlay(P, s, channel, item, ok) ==
    LET Q == SpeakerStop(P, s)
    IN IF ok
       THEN [Q EXCEPT !.speakers[s] = [channel |-> channel, state |-> "Playing",
                                       item |-> item, started |-> channel]]
       ELSE [Q EXCEPT !.speakers[s] = IdleSpeaker]

\* pause(handle) / unpause(handle) / is_paused(handle).
SpeakerPause(P, s) == [P EXCEPT !.speakers[s].state = "Paused"]

SpeakerUnpause(P, s) == [P EXCEPT !.speakers[s].state = "Playing"]

IsPaused(P, s) == P.speakers[s].state = "Paused"

\* stop through the handle the completion callback receives: the Speaker is
\* stopped and released (unbound).
EndedStop(P, s) ==
    [SpeakerStop(P, s) EXCEPT !.speakers[s] = IdleSpeaker]

\* play through the handle the completion callback receives: the Speaker
\* stays in its current channel; on failure the handle is given back.
EndedPlay(P, s, item, ok) ==
    IF ok THEN SpeakerPlay(P, s, P.speakers[s].channel, item, TRUE)
    ELSE SpeakerStop(P, s)

\* ------------------------------------------------------------ Orchestrator
Free == "free"
EndedTask == "ended"
NoNotification == [speaker |-> "none", started |-> NoChannel, item |-> NoItem]

\* The record of one handler run: the command (or "ended"), its inputs, the
\* response it gives, the result of the Guild Model operation it called,
\* whether it found its channel marked stopped or at rest, and for a playback-ended
\* handler the Speaker, its channels and the votes that stood against the
\* Item that ended.
NoLast == [cmd |-> "-", user |-> NoUser, channel |-> NoChannel,
           members |-> {}, status |-> "-", op |-> "-", item |-> NoItem,
           old |-> NoItem, n |-> 0, count |-> 0, occ |-> 0,
           speaker |-> "none", started |-> NoChannel, tried |-> 0,
           posted |-> "none", raced |-> FALSE, after |-> NoItem,
           yielded |-> <<>>, voters |-> FreshVotes, dest |-> "none",
           halted |-> FALSE, resting |-> FALSE, flight |-> 0]

NoRival == [proc |-> "none", channel |-> NoChannel, idle |-> FALSE,
            n |-> 0, item |-> NoItem]

\* No command of the task is under way: no timer, no cancel signal, no
\* request for a response.
NoAck == [timer |-> "off", rx |-> "none", deferred |-> "idle", shown |-> FALSE,
          sent |-> "none"]

\* The other guild: its handler is idle and its two locks are free.
NoOther == [pc |-> "idle", model |-> Free, pool |-> Free]

Init ==
    /\ queues = [u \in Users |-> <<>>]
    /\ playing = [c \in Channels |-> NoItem]
    /\ stopped = [c \in Channels |-> FALSE]
    /\ cursor = [c \in Channels |-> NoUser]
    /\ votes = [c \in Channels |-> FreshVotes]
    /\ msgChannel = "none"
    /\ speakers = [s \in Speakers |-> IdleSpeaker]
    /\ ended = {}
    /\ guildLock = Free
    /\ pc = [p \in Procs |-> "idle"]
    /\ handling = NoNotification
    /\ last = NoLast
    /\ rival = NoRival
    /\ cast = [c \in Channels |-> FreshVotes]
    /\ nextId = 1
    /\ poolLock = Free
    /\ other = NoOther
    /\ ack = [p \in Procs |-> NoAck]

\* The songs a resolution returns: n fresh Items requested by the user.
ResolvedSongs(user, n) == [i \in 1..n |-> [id |-> nextId + i - 1, user |-> user]]

\* A command interaction is received and its task spawned (handle_command).
Receive(p) ==
    /\ pc[p] = "idle"
    /\ pc' = [pc EXCEPT ![p] = "waiting"]
    /\ last' = NoLast
    /\ UNCHANGED <<model, pool, guildLock, handling, rival, cast, nextId, locks, ack>>

\* A lock that never makes a task wait.
GuildLockNeverHeld == TRUE

\* The guild's Guild Model lock can be acquired.
GuildLockAvailable == guildLock = Free

\* handle_command_fallable that records the message channel only when none
\* is recorded yet.
LockGuildFirstWins(p, M) ==
    /\ pc[p] = "waiting"
    /\ GuildLockAvailable
    /\ \E m \in M :
         /\ msgChannel' = IF msgChannel = "none" THEN m ELSE msgChannel
         /\ last' = [NoLast EXCEPT !.cmd = "lock", !.posted = msgChannel,
                                    !.dest = m]
    /\ guildLock' = p
    /\ pc' = [pc EXCEPT ![p] = "locked"]
    /\ UNCHANGED <<queues, playing, stopped, cursor, votes, pool, handling, rival,
                   cast, nextId, locks, ack>>

\* handle_command_fallable: lock the guild for the duration of the command
\* and record the message channel the command was sent from (m).
LockGuildIn(p, M) ==
    /\ pc[p] = "waiting"
    /\ GuildLockAvailable
    /\ \E m \in M :
         /\ msgChannel' = m
         /\ last' = [NoLast EXCEPT !.cmd = "lock", !.posted = msgChannel,
                                    !.dest = m]
    /\ guildLock' = p
    /\ pc' = [pc EXCEPT ![p] = "locked"]
    /\ UNCHANGED <<queues, playing, stopped, cursor, votes, pool, handling, rival,
                   cast, nextId, locks, ack>>

LockGuild(p) == LockGuildIn(p, MsgChannels)

\* A command handler takes the lock of the guild's Speaker Pool
\* (backend_brain.guild_speakers(guild_id).lock()); it is inside
\* handle_guild_command, so it holds the Guild Model lock already.
LockPool(p) ==
    /\ pc[p] = "locked"
    /\ guildLock = p
    /\ poolLock = Free
    /\ poolLock' = p
    /\ last' = NoLast
    /\ UNCHANGED <<model, pool, msgChannel, guildLock, pc, handling, rival, cast,
                   nextId, other, ack>>

\* The channel has played Items and is neither active nor marked stopped: the
\* state in which a completion handler that reports Finished leaves it.
AtRest(g, c) ==
    c # NoChannel /\ g.playing[c] = NoItem /\ ~g.stopped[c] /\ g.cursor[c] # NoUser

\* The votes cast on the Item that is current in each channel, after a handler
\* that leaves the Guild Model as g and reports o.
VotesCast(g, o) ==
    [c \in Channels |->
        IF g.playing[c] # playing[c] THEN FreshVotes
        ELSE IF o.cmd \in {"skip", "stop"} /\ o.channel = c
                /\ o.op \in {"Success", "NeedsMoreVotes"}
        THEN [cast[c] EXCEPT ![IF o.cmd = "skip" THEN "Skip" ELSE "Stop"] =
                                 @ \cup {o.user}]
        ELSE cast[c]]

\* The play attempt o of task p was waiting for the guild lock while another
\* task's play attempt was decided on the same channel, which that one found
\* idle.
Rivals(p, o) ==
    /\ o.cmd \in {"play", "resume"}
    /\ o.channel # NoChannel
    /\ rival.proc \notin {"none", p}
    /\ rival.channel = o.channel
    /\ rival.idle

\* The number of Items a play command enqueued whose resolution was in flight
\* when the skip or stop command o of task p was issued: the play was decided
\* while p was waiting for the guild lock.
InFlight(p, o) ==
    IF o.cmd \in {"skip", "stop"} /\ rival.proc \notin {"none", p}
    THEN rival.n ELSE 0

\* The decision of a command is applied: the Guild Model and the pool are as
\* the handler left them, and the messages it returned are its outcome.  The
\* handler has taken the pool lock if it did not hold it, and has dropped it.
Apply(p, g, P, n, o) ==
    /\ queues' = g.queues
    /\ playing' = g.playing
    /\ stopped' = g.stopped
    /\ cursor' = g.cursor
    /\ votes' = g.votes
    /\ speakers' = P.speakers
    /\ ended' = P.ended
    /\ nextId' = nextId + n
    /\ last' = [o EXCEPT !.raced = Rivals(p, o),
                          !.after = IF Rivals(p, o) THEN rival.item ELSE NoItem,
                          !.halted = o.channel # NoChannel /\ stopped[o.channel],
                          !.resting = AtRest(GM, o.channel),
                          !.flight = InFlight(p, o)]
    /\ cast' = VotesCast(g, o)
    /\ rival' = IF o.cmd \in {"play", "resume"} /\ o.channel # NoChannel
                    /\ \E q \in Procs \ {p} : pc[q] = "waiting"
                 THEN [proc |-> p, channel |-> o.channel,
                       idle |-> /\ playing[o.channel] = NoItem
                                /\ FindActiveInChannel(ThePool, o.channel) = {},
                       n |-> o.n,
                       item |-> IF o.status = "Playing" /\ o.op = "Entry"
                                THEN o.item ELSE NoItem]
                 ELSE NoRival
    /\ poolLock \in {Free, p}
    /\ poolLock' = Free
    /\ UNCHANGED <<msgChannel, handling, other, ack>>

\* The command's decision is made, its response sent and the lock released.
Finish(p, g, P, n, o) ==
    /\ Apply(p, g, P, n, o)
    /\ pc' = [pc EXCEPT ![p] = "idle"]
    /\ guildLock' = IF guildLock = p THEN Free ELSE guildLock

\* The command's decision is made and its response is being sent: the task
\* is suspended in send_messages and still holds the guild lock.
Decided(p, g, P, n, o) ==
    /\ Apply(p, g, P, n, o)
    /\ pc' = [pc EXCEPT ![p] = "sending"]
    /\ UNCHANGED guildLock

\* How a command task goes on once its handler has returned: it is suspended
\* while the response is sent, or the sending is part of the same step.
Conclude(p, g, P, n, o, sending) ==
    IF sending THEN Decided(p, g, P, n, o) ELSE Finish(p, g, P, n, o)

\* The response is sent; the command task ends and drops the guild lock.
Respond(p) ==
    /\ pc[p] = "sending"
    /\ pc' = [pc EXCEPT ![p] = "idle"]
    /\ guildLock' = IF guildLock = p THEN Free ELSE guildLock
    /\ last' = NoLast
    /\ UNCHANGED <<model, pool, handling, rival, cast, nextId, locks, ack>>

\* handle_command_fallable starts: the cancel signal (a oneshot channel) is
\* created, the deferred-acknowledgement future waits for the signal or for
\* the timer, and the command future waits for the guild lock.  The two are
\* joined, so the task's previous command has finished both.
ReceiveDeferring(p) ==
    /\ pc[p] = "idle"
    /\ ack[p].deferred \in {"idle", "done"}
    /\ pc' = [pc EXCEPT ![p] = "waiting"]
    /\ ack' = [ack EXCEPT ![p] = [timer |-> "armed", rx |-> "open",
                                  deferred |-> "select", shown |-> FALSE,
                                  sent |-> "none"]]
    /\ last' = NoLast
    /\ UNCHANGED <<model, pool, guildLock, handling, rival, cast, nextId, locks>>

\* SEND_WORKING_TIMEOUT_MS have passed.
TimerElapses(p) ==
    /\ ack[p].timer = "armed"
    /\ ack[p].deferred = "select"
    /\ ack' = [ack EXCEPT ![p].timer = "elapsed"]
    /\ last' = NoLast
    /\ UNCHANGED <<model, pool, guildLock, pc, handling, rival, cast, nextId,
                   locks>>

\* The deferred-acknowledgement future is polled with a branch of its select!
\* ready: the signal gives false, the timer gives true, and when both are
\* ready either is taken.  The receiver is dropped with the select!; on true
\* the deferred response's creation is requested and awaited.
DeferredSelect(p) ==
    /\ ack[p].deferred = "select"
    /\ \E show \in {b \in BOOLEAN : \/ b /\ ack[p].timer = "elapsed"
                                    \/ ~b /\ ack[p].rx = "sent"} :
         ack' = [ack EXCEPT ![p].deferred = IF show THEN "creating" ELSE "done",
                            ![p].shown = show,
                            ![p].rx = IF @ = "open" THEN "dropped" ELSE @]
    /\ last' = NoLast
    /\ UNCHANGED <<model, pool, guildLock, pc, handling, rival, cast, nextId,
                   locks>>

\* create_interaction_response returns: the deferred response exists.
DeferredCreated(p) ==
    /\ ack[p].deferred = "creating"
    /\ ack' = [ack EXCEPT ![p].deferred = "done"]
    /\ last' = NoLast
    /\ UNCHANGED <<model, pool, guildLock, pc, handling, rival, cast, nextId,
                   locks>>

\* handle_guild_command has returned: tx.send(()) fails exactly when the
\* receiver has been dropped, and send_messages is called with is_edit set to
\* that; the task is suspended in it.
SendResult(p) ==
    /\ pc[p] = "sending"
    /\ ack[p].sent = "none"
    /\ LET has_sent_deferred == ack[p].rx = "dropped"
       IN ack' = [ack EXCEPT ![p].sent = IF has_sent_deferred THEN "edit"
                                         ELSE "create",
                             ![p].rx = IF @ = "open" THEN "sent" ELSE @]
    /\ last' = NoLast
    /\ UNCHANGED <<model, pool, guildLock, pc, handling, rival, cast, nextId,
                   locks>>

\* send_messages returns; the command future ends and drops the guild lock.
ResultSent(p) ==
    /\ pc[p] = "sending"
    /\ ack[p].sent # "none"
    /\ pc' = [pc EXCEPT ![p] = "idle"]
    /\ guildLock' = IF guildLock = p THEN Free ELSE guildLock
    /\ last' = NoLast
    /\ UNCHANGED <<model, pool, handling, rival, cast, nextId, locks, ack>>

\* play_to_speaker that plays the same Item again when its play has failed,
\* and returns the error of the first attempt.
PlayToSpeakerRetries(g, P, s, channel, song, ok) ==
    [g |-> IF ok THEN g ELSE SetChannelStopped(g, channel),
     P |-> SpeakerPlay(P, s, channel, song, TRUE)]

\* play_to_speaker that returns the error of a failed play without marking
\* the channel stopped.
PlayToSpeakerUnmarked(g, P, s, channel, song, ok) ==
    [g |-> g, P |-> SpeakerPlay(P, s, channel, song, ok)]

\* play_to_speaker that sets the stop marker after a failed play and leaves
\* the channel's active Item in place.
PlayToSpeakerKeepsActive(g, P, s, channel, song, ok) ==
    [g |-> IF ok THEN g ELSE [g EXCEPT !.stopped[channel] = TRUE],
     P |-> SpeakerPlay(P, s, channel, song, ok)]

\* play_to_speaker: play; a failure marks the channel stopped.
PlayToSpeaker(g, P, s, channel, song, ok) ==
    [g |-> IF ok THEN g ELSE SetChannelStopped(g, channel),
     P |-> SpeakerPlay(P, s, channel, song, ok)]

\* What a media resolution can return.
Resolutions == {"unsupported", "error", "empty", "songs"}

NoSpeaker == "none"

\* The Speaker a find returns: the first of the pool that qualifies (the
\* empty set stands for None).
Pick(found) ==
    IF found = {} THEN {NoSpeaker}
    ELSE LET hits == {i \in 1..Len(SpeakerOrder) : SpeakerOrder[i] \in found}
         IN {SpeakerOrder[CHOOSE i \in hits : \A j \in hits : i <= j]}

Outcome(cmd, user, delegate) ==
    [NoLast EXCEPT !.cmd = cmd, !.user = user,
                   !.channel = UserVoiceChannel(delegate, user),
                   !.members = delegate.members]

\* handle_queue_play_command that turns away a user who is in no voice
\* channel.
QueuePlayNeedsChannel(g, P, user, delegate, songs, s, ok) ==
    LET g1 == PushEntries(g, user, songs)
        channel == UserVoiceChannel(delegate, user)
        o == [Outcome("play", user, delegate) EXCEPT !.n = Len(songs)]
        nx == NextChannelEntry(g1, delegate, channel)
        r == PlayToSpeaker(nx.g, P, s, channel, nx.item, ok)
    IN IF channel = NoChannel
       THEN [g |-> g, P |-> P, o |-> [o EXCEPT !.status = "NotInVoiceChannelError"]]
       ELSE IF s = NoSpeaker
       THEN [g |-> g1, P |-> P, o |-> [o EXCEPT !.status = "QueuedNoSpeakers"]]
       ELSE IF nx.status # "Entry"
       THEN [g |-> nx.g, P |-> P,
             o |-> [o EXCEPT !.status = "Queued", !.op = nx.status]]
       ELSE [g |-> r.g, P |-> r.P,
             o |-> [o EXCEPT !.status = IF ok THEN "Playing" ELSE "Error",
                             !.op = "Entry", !.item = nx.item,
                             !.yielded = <<nx.item>>]]

\* handle_queue_play_command that puts the new Items in front of the ones the
\* user has queued.
QueuePlayPrepends(g, P, user, delegate, songs, s, ok) ==
    LET g1 == [g EXCEPT !.queues[user] = songs \o @]
        channel == UserVoiceChannel(delegate, user)
        o == [Outcome("play", user, delegate) EXCEPT !.n = Len(songs)]
        nx == NextChannelEntry(g1, delegate, channel)
        r == PlayToSpeaker(nx.g, P, s, channel, nx.item, ok)
    IN IF channel = NoChannel
       THEN [g |-> g1, P |-> P, o |-> [o EXCEPT !.status = "Queued"]]
       ELSE IF s = NoSpeaker
       THEN [g |-> g1, P |-> P, o |-> [o EXCEPT !.status = "QueuedNoSpeakers"]]
       ELSE IF nx.status # "Entry"
       THEN [g |-> nx.g, P |-> P,
             o |-> [o EXCEPT !.status = "Queued", !.op = nx.status]]
       ELSE [g |-> r.g, P |-> r.P,
             o |-> [o EXCEPT !.status = IF ok THEN "Playing" ELSE "Error",
                             !.op = "Entry", !.item = nx.item,
                             !.yielded = <<nx.item>>]]

\* handle_queue_play_command that plays the requester's own next Item.
QueuePlayOwnItem(g, P, user, delegate, songs, s, ok) ==
    LET g1 == PushEntries(g, user, songs)
        channel == UserVoiceChannel(delegate, user)
        o == [Outcome("play", user, delegate) EXCEPT !.n = Len(songs)]
        own == Head(g1.queues[user])
        r == PlayToSpeaker(SelectEntry(g1, channel, user), P, s, channel, own, ok)
    IN IF channel = NoChannel
       THEN [g |-> g1, P |-> P, o |-> [o EXCEPT !.status = "Queued"]]
       ELSE IF s = NoSpeaker
       THEN [g |-> g1, P |-> P, o |-> [o EXCEPT !.status = "QueuedNoSpeakers"]]
       ELSE IF g1.playing[channel] # NoItem
       THEN [g |-> g1, P |-> P,
             o |-> [o EXCEPT !.status = "Queued", !.op = "AlreadyPlaying"]]
       ELSE [g |-> r.g, P |-> r.P,
             o |-> [o EXCEPT !.status = IF ok THEN "Playing" ELSE "Error",
                             !.op = "Entry", !.item = own,
                             !.yielded = <<own>>]]

\* handle_queue_play_command that enqueues only once it has a Speaker.
QueuePlayEnqueuesLate(g, P, user, delegate, songs, s, ok) ==
    LET g1 == PushEntries(g, user, songs)
        channel == UserVoiceChannel(delegate, user)
        o == [Outcome("play", user, delegate) EXCEPT !.n = Len(songs)]
        nx == NextChannelEntry(g1, delegate, channel)
        r == PlayToSpeaker(nx.g, P, s, channel, nx.item, ok)
    IN IF channel = NoChannel
       THEN [g |-> g1, P |-> P, o |-> [o EXCEPT !.status = "Queued"]]
       ELSE IF s = NoSpeaker
       THEN [g |-> g, P |-> P, o |-> [o EXCEPT !.status = "QueuedNoSpeakers"]]
       ELSE IF nx.status # "Entry"
       THEN [g |-> nx.g, P |-> P,
             o |-> [o EXCEPT !.status = "Queued", !.op = nx.status]]
       ELSE [g |-> r.g, P |-> r.P,
             o |-> [o EXCEPT !.status = IF ok THEN "Playing" ELSE "Error",
                             !.op = "Entry", !.item = nx.item,
                             !.yielded = <<nx.item>>]]

\* handle_queue_play_command that selects with next_for_channel_after_finish.
QueuePlayOverActive(g, P, user, delegate, songs, s, ok) ==
    LET g1 == PushEntries(g, user, songs)
        channel == UserVoiceChannel(delegate, user)
        o == [Outcome("play", user, delegate) EXCEPT !.n = Len(songs)]
        nx == NextChannelEntryFinished(g1, delegate, channel)
        r == PlayToSpeaker(nx.g, P, s, channel, nx.item, ok)
    IN IF channel = NoChannel
       THEN [g |-> g1, P |-> P, o |-> [o EXCEPT !.status = "Queued"]]
       ELSE IF s = NoSpeaker
       THEN [g |-> g1, P |-> P, o |-> [o EXCEPT !.status = "QueuedNoSpeakers"]]
       ELSE IF nx.item = NoItem
       THEN [g |-> nx.g, P |-> P,
             o |-> [o EXCEPT !.status = "Queued", !.op = "NoneAvailable"]]
       ELSE [g |-> r.g, P |-> r.P,
             o |-> [o EXCEPT !.status = IF ok THEN "Playing" ELSE "Error",
                             !.op = "Entry", !.item = nx.item,
                             !.yielded = <<nx.item>>]]

\* handle_queue_play_command, from the point the songs are resolved: s is the
\* Speaker find_to_play_in_channel returned, ok whether play succeeds.
QueuePlay(g, P, user, delegate, songs, s, ok) ==
    LET g1 == PushEntries(g, user, songs)
        channel == UserVoiceChannel(delegate, user)
        o == [Outcome("play", user, delegate) EXCEPT !.n = Len(songs)]
        nx == NextChannelEntry(g1, delegate, channel)
        r == PlayToSpeaker(nx.g, P, s, channel, nx.item, ok)
    IN IF channel = NoChannel
       THEN [g |-> g1, P |-> P, o |-> [o EXCEPT !.status = "Queued"]]
       ELSE IF s = NoSpeaker
       THEN [g |-> g1, P |-> P, o |-> [o EXCEPT !.status = "QueuedNoSpeakers"]]
       ELSE IF nx.status # "Entry"
       THEN [g |-> nx.g, P |-> P,
             o |-> [o EXCEPT !.status = "Queued", !.op = nx.status]]
       ELSE [g |-> r.g, P |-> r.P,
             o |-> [o EXCEPT !.status = IF ok THEN "Playing" ELSE "Error",
                             !.op = "Entry", !.item = nx.item,
                             !.yielded = <<nx.item>>]]

\* handle_unpause_command: a is the Speaker find_active_in_channel returned,
\* s the one find_to_play_in_channel returned.
Unpause(g, P, user, delegate, a, s, ok) ==
    LET channel == UserVoiceChannel(delegate, user)
        o == Outcome("resume", user, delegate)
        nx == NextChannelEntry(g, delegate, channel)
        r == PlayToSpeaker(nx.g, P, s, channel, nx.item, ok)
    IN IF channel = NoChannel
       THEN [g |-> g, P |-> P, o |-> [o EXCEPT !.status = "NotInVoiceChannelError"]]
       ELSE IF a # NoSpeaker
       THEN IF IsPaused(P, a)
            THEN [g |-> g, P |-> SpeakerUnpause(P, a),
                  o |-> [o EXCEPT !.status = "Playing", !.op = "Unpaused",
                                  !.item = P.speakers[a].item]]
            ELSE [g |-> g, P |-> P, o |-> [o EXCEPT !.status = "AlreadyPlayingError"]]
       ELSE IF s = NoSpeaker
       THEN [g |-> g, P |-> P, o |-> [o EXCEPT !.status = "NoSpeakersError"]]
       ELSE IF nx.status # "Entry"
       THEN [g |-> nx.g, P |-> P,
             o |-> [o EXCEPT !.status = "NothingIsQueuedError", !.op = nx.status]]
       ELSE [g |-> r.g, P |-> r.P,
             o |-> [o EXCEPT !.status = IF ok THEN "Playing" ELSE "Error",
                             !.op = "Entry", !.item = nx.item,
                             !.yielded = <<nx.item>>]]

\* handle_replace_command that does not tell replace_entry the user's channel.
ReplaceWithoutChannel(g, P, user, delegate, songs, a, ok) ==
    LET rep == ReplaceEntry(g, user, NoChannel, Head(songs))
        g1 == PushEntries(rep.g, user, Tail(songs))
        o == [Outcome("replace", user, delegate) EXCEPT
                 !.op = rep.status, !.old = rep.old, !.n = Len(songs)]
    IN IF rep.status = "Queued"
       THEN [g |-> g1, P |-> P, o |-> [o EXCEPT !.status = "Queued"]]
       ELSE [g |-> g1, P |-> P, o |-> [o EXCEPT !.status = "Replaced"]]

\* handle_replace_command, from the point the songs are resolved (at least
\* one): a is the Speaker find_active_in_channel returned for the channel of
\* ReplacedCurrent.
Replace(g, P, user, delegate, songs, a, ok) ==
    LET rep == ReplaceEntry(g, user, UserVoiceChannel(delegate, user), Head(songs))
        g1 == PushEntries(rep.g, user, Tail(songs))
        o == [Outcome("replace", user, delegate) EXCEPT
                 !.op = rep.status, !.old = rep.old, !.n = Len(songs)]
        nx == NextChannelEntryFinished(g1, delegate, rep.channel)
        r == PlayToSpeaker(nx.g, P, a, rep.channel, nx.item, ok)
    IN IF rep.status = "Queued"
       THEN [g |-> g1, P |-> P, o |-> [o EXCEPT !.status = "Queued"]]
       ELSE IF rep.status = "ReplacedInQueue"
       THEN [g |-> g1, P |-> P, o |-> [o EXCEPT !.status = "Replaced"]]
       ELSE IF a = NoSpeaker
       THEN [g |-> g1, P |-> P, o |-> [o EXCEPT !.status = "DesyncError"]]
       ELSE IF nx.item = NoItem
       THEN [g |-> nx.g, P |-> P, o |-> [o EXCEPT !.status = "NothingIsQueuedError"]]
       ELSE [g |-> r.g, P |-> r.P,
             o |-> [o EXCEPT !.status = IF ok THEN "Playing" ELSE "Error",
                             !.item = nx.item, !.yielded = <<nx.item>>]]

\* handle_pause_command that pauses the active Speaker without asking whether
\* it is paused.
PauseUnchecked(g, P, user, delegate, a) ==
    LET channel == UserVoiceChannel(delegate, user)
        o == Outcome("pause", user, delegate)
    IN IF channel = NoChannel
       THEN [g |-> g, P |-> P, o |-> [o EXCEPT !.status = "NotInVoiceChannelError"]]
       ELSE IF a # NoSpeaker
       THEN [g |-> g, P |-> SpeakerPause(P, a),
             o |-> [o EXCEPT !.status = "Paused", !.item = P.speakers[a].item]]
       ELSE [g |-> g, P |-> P, o |-> [o EXCEPT !.status = "NothingIsPlayingError"]]

\* handle_pause_command.
Pause(g, P, user, delegate, a) ==
    LET channel == UserVoiceChannel(delegate, user)
        o == Outcome("pause", user, delegate)
    IN IF channel = NoChannel
       THEN [g |-> g, P |-> P, o |-> [o EXCEPT !.status = "NotInVoiceChannelError"]]
       ELSE IF a # NoSpeaker /\ ~IsPaused(P, a)
       THEN [g |-> g, P |-> SpeakerPause(P, a),
             o |-> [o EXCEPT !.status = "Paused", !.item = P.speakers[a].item]]
       ELSE [g |-> g, P |-> P, o |-> [o EXCEPT !.status = "NothingIsPlayingError"]]

\* handle_nowplaying_command.
NowPlaying(g, P, user, delegate, a) ==
    LET channel == UserVoiceChannel(delegate, user)
        o == Outcome("nowplaying", user, delegate)
    IN IF channel = NoChannel
       THEN [g |-> g, P |-> P, o |-> [o EXCEPT !.status = "NotInVoiceChannelError"]]
       ELSE IF a # NoSpeaker
       THEN [g |-> g, P |-> P,
             o |-> [o EXCEPT !.status = "NowPlaying", !.item = P.speakers[a].item]]
       ELSE [g |-> g, P |-> P, o |-> [o EXCEPT !.status = "NothingIsPlayingError"]]

\* handle_skip_command that, when the vote succeeds, also drops what the user
\* of the skipped Item has queued.
SkipDropsQueued(g, P, user, delegate, occ, a) ==
    LET channel == UserVoiceChannel(delegate, user)
        v == VoteForSkip(g, occ, "Skip", channel, user)
        o == [Outcome("skip", user, delegate) EXCEPT
                 !.op = v.status, !.count = v.count, !.occ = occ]
    IN IF channel = NoChannel
       THEN [g |-> g, P |-> P,
             o |-> [Outcome("skip", user, delegate) EXCEPT
                       !.status = "NotInVoiceChannelError"]]
       ELSE IF v.status = "Success" /\ a # NoSpeaker
       THEN [g |-> [v.g EXCEPT !.queues[P.speakers[a].item.user] = <<>>],
             P |-> SpeakerStop(P, a),
             o |-> [o EXCEPT !.status = "Skipped", !.item = P.speakers[a].item]]
       ELSE IF v.status = "AlreadyVoted" /\ a # NoSpeaker
       THEN [g |-> v.g, P |-> P, o |-> [o EXCEPT !.status = "SkipAlreadyVotedError"]]
       ELSE IF v.status = "NeedsMoreVotes" /\ a # NoSpeaker
       THEN [g |-> v.g, P |-> P, o |-> [o EXCEPT !.status = "SkipMoreVotesNeeded"]]
       ELSE IF v.status = "NothingPlaying"
       THEN [g |-> v.g, P |-> P, o |-> [o EXCEPT !.status = "NothingIsPlayingError"]]
       ELSE [g |-> v.g, P |-> P, o |-> [o EXCEPT !.status = "DesyncError"]]

\* handle_skip_command that casts its vote as a vote to stop.
SkipVotesToStop(g, P, user, delegate, occ, a) ==
    LET channel == UserVoiceChannel(delegate, user)
        v == VoteForSkip(g, occ, "Stop", channel, user)
        o == [Outcome("skip", user, delegate) EXCEPT
                 !.op = v.status, !.count = v.count, !.occ = occ]
    IN IF channel = NoChannel
       THEN [g |-> g, P |-> P,
             o |-> [Outcome("skip", user, delegate) EXCEPT
                       !.status = "NotInVoiceChannelError"]]
       ELSE IF v.status = "Success" /\ a # NoSpeaker
       THEN [g |-> v.g, P |-> SpeakerStop(P, a),
             o |-> [o EXCEPT !.status = "Skipped", !.item = P.speakers[a].item]]
       ELSE [g |-> v.g, P |-> P, o |-> [o EXCEPT !.status = "DesyncError"]]

\* handle_skip_command that looks up the active Speaker before it votes.
SkipLooksUpSpeakerFirst(g, P, user, delegate, occ, a) ==
    LET channel == UserVoiceChannel(delegate, user)
        v == VoteForSkip(g, occ, "Skip", channel, user)
        o == [Outcome("skip", user, delegate) EXCEPT !.occ = occ]
    IN IF channel = NoChannel
       THEN [g |-> g, P |-> P,
             o |-> [Outcome("skip", user, delegate) EXCEPT
                       !.status = "NotInVoiceChannelError"]]
       ELSE IF a = NoSpeaker
       THEN [g |-> g, P |-> P,
             o |-> [o EXCEPT !.status = "NothingIsPlayingError",
                             !.op = "NothingPlaying"]]
       ELSE [g |-> v.g,
             P |-> IF v.status = "Success" THEN SpeakerStop(P, a) ELSE P,
             o |-> [o EXCEPT !.status = v.status, !.op = v.status,
                             !.count = v.count]]

\* handle_skip_command: the vote is cast first, then the active Speaker of
\* the channel is looked up (a).
Skip(g, P, user, delegate, occ, a) ==
    LET channel == UserVoiceChannel(delegate, user)
        v == VoteForSkip(g, occ, "Skip", channel, user)
        o == [Outcome("skip", user, delegate) EXCEPT
                 !.op = v.status, !.count = v.count, !.occ = occ]
    IN IF channel = NoChannel
       THEN [g |-> g, P |-> P,
             o |-> [Outcome("skip", user, delegate) EXCEPT
                       !.status = "NotInVoiceChannelError"]]
       ELSE IF v.status = "Success" /\ a # NoSpeaker
       THEN [g |-> v.g, P |-> SpeakerStop(P, a),
             o |-> [o EXCEPT !.status = "Skipped", !.item = P.speakers[a].item]]
       ELSE IF v.status = "AlreadyVoted" /\ a # NoSpeaker
       THEN [g |-> v.g, P |-> P, o |-> [o EXCEPT !.status = "SkipAlreadyVotedError"]]
       ELSE IF v.status = "NeedsMoreVotes" /\ a # NoSpeaker
       THEN [g |-> v.g, P |-> P, o |-> [o EXCEPT !.status = "SkipMoreVotesNeeded"]]
       ELSE IF v.status = "NothingPlaying"
       THEN [g |-> v.g, P |-> P, o |-> [o EXCEPT !.status = "NothingIsPlayingError"]]
       ELSE [g |-> v.g, P |-> P, o |-> [o EXCEPT !.status = "DesyncError"]]

\* handle_stop_command that stops the Speaker without marking the channel
\* stopped.
StopLikeSkip(g, P, user, delegate, occ, a) ==
    LET channel == UserVoiceChannel(delegate, user)
        v == VoteForSkip(g, occ, "Stop", channel, user)
        o == [Outcome("stop", user, delegate) EXCEPT
                 !.op = v.status, !.count = v.count, !.occ = occ]
    IN IF channel = NoChannel
       THEN [g |-> g, P |-> P,
             o |-> [Outcome("stop", user, delegate) EXCEPT
                       !.status = "NotInVoiceChannelError"]]
       ELSE IF v.status = "Success"
       THEN IF a # NoSpeaker
            THEN [g |-> v.g, P |-> SpeakerStop(P, a),
                  o |-> [o EXCEPT !.status = "Stopped", !.item = P.speakers[a].item]]
            ELSE [g |-> v.g, P |-> P, o |-> [o EXCEPT !.status = "DesyncError"]]
       ELSE IF v.status = "AlreadyVoted"
       THEN [g |-> v.g, P |-> P, o |-> [o EXCEPT !.status = "StopAlreadyVotedError"]]
       ELSE IF v.status = "NeedsMoreVotes"
       THEN [g |-> v.g, P |-> P, o |-> [o EXCEPT !.status = "StopMoreVotesNeeded"]]
       ELSE [g |-> v.g, P |-> P, o |-> [o EXCEPT !.status = "NothingIsPlayingError"]]

\* handle_stop_command: the active Speaker is looked up only after a vote
\* that succeeds.
Stop(g, P, user, delegate, occ, a) ==
    LET channel == UserVoiceChannel(delegate, user)
        v == VoteForSkip(g, occ, "Stop", channel, user)
        o == [Outcome("stop", user, delegate) EXCEPT
                 !.op = v.status, !.count = v.count, !.occ = occ]
    IN IF channel = NoChannel
       THEN [g |-> g, P |-> P,
             o |-> [Outcome("stop", user, delegate) EXCEPT
                       !.status = "NotInVoiceChannelError"]]
       ELSE IF v.status = "Success"
       THEN IF a # NoSpeaker
            THEN [g |-> SetChannelStopped(v.g, channel), P |-> SpeakerStop(P, a),
                  o |-> [o EXCEPT !.status = "Stopped", !.item = P.speakers[a].item]]
            ELSE [g |-> v.g, P |-> P, o |-> [o EXCEPT !.status = "DesyncError"]]
       ELSE IF v.status = "AlreadyVoted"
       THEN [g |-> v.g, P |-> P, o |-> [o EXCEPT !.status = "StopAlreadyVotedError"]]
       ELSE IF v.status = "NeedsMoreVotes"
       THEN [g |-> v.g, P |-> P, o |-> [o EXCEPT !.status = "StopMoreVotesNeeded"]]
       ELSE [g |-> v.g, P |-> P, o |-> [o EXCEPT !.status = "NothingIsPlayingError"]]

\* A replace that takes the user's latest queued Item out before the term is
\* resolved, and ends when the resolution fails.
EarlyReturnAfterRemoval(cmd, user, status) ==
    [g |-> IF cmd = "replace" /\ queues[user] # <<>>
           THEN [GM EXCEPT !.queues[user] = Front(@)] ELSE GM,
     P |-> ThePool, o |-> [Outcome(cmd, user, NoDelegate) EXCEPT !.status = status]]

\* A command that ends before it touches the Guild Model or the pool.
EarlyReturn(cmd, user, status) ==
    [g |-> GM, P |-> ThePool, o |-> [Outcome(cmd, user, NoDelegate) EXCEPT !.status = status]]

ResolveFailure(res) ==
    CASE res = "unsupported" -> "UnsupportedSiteError"
      [] res = "empty" -> "NoMatchingSongsError"
      [] OTHER -> "Error"

\* Occupancies the membership lookup can report for the voter's channel.
Occupancies(delegate) ==
    {n \in 1..MaxOccupancy : n >= Cardinality(delegate.members)}

\* "play": resolve the term, then handle_queue_play_command; `sending` tells
\* whether the response is sent in a step of its own, `at` where the task
\* stands: it has the guild lock, or its resolution has already returned.
PlayCommandFrom(p, U, C, sending, at) ==
    /\ pc[p] = at
    /\ \E user \in U : \E delegate \in DelegatesFor(user, U, C), res \in Resolutions :
         IF res # "songs"
         THEN LET r == EarlyReturn("play", user, ResolveFailure(res))
              IN Conclude(p, r.g, r.P, 0, r.o, sending)
         ELSE \E n \in 1..MaxResolved :
                /\ nextId + n - 1 <= MaxSongs
                /\ \E s \in Pick(FindToPlayInChannel(ThePool, UserVoiceChannel(delegate, user))),
                      ok \in BOOLEAN :
                     LET r == QueuePlay(GM, ThePool, user, delegate,
                                        ResolvedSongs(user, n), s, ok)
                     IN Conclude(p, r.g, r.P, n, r.o, sending)

PlayCommandWith(p, U, C, sending) == PlayCommandFrom(p, U, C, sending, "locked")

PlayCommandIn(p, U, C) == PlayCommandWith(p, U, C, FALSE)

\* The play command whose response is sent in a step of its own.
PlayCommandSending(p, U, C) == PlayCommandWith(p, U, C, TRUE)

\* "resume": handle_unpause_command.
ResumeCommandIn(p, U, C) ==
    /\ pc[p] = "locked"
    /\ \E user \in U : \E delegate \in DelegatesFor(user, U, C), dok \in BOOLEAN :
         IF ~dok
         THEN LET r == EarlyReturn("resume", user, "Error")
              IN Finish(p, r.g, r.P, 0, r.o)
         ELSE \E a \in Pick(FindActiveInChannel(ThePool, UserVoiceChannel(delegate, user))),
                 s \in Pick(FindToPlayInChannel(ThePool, UserVoiceChannel(delegate, user))),
                 ok \in BOOLEAN :
                LET r == Unpause(GM, ThePool, user, delegate, a, s, ok)
                IN Finish(p, r.g, r.P, 0, r.o)

\* "replace": resolve the term, then handle_replace_command; `at` is where
\* the task stands.
ReplaceCommandFrom(p, U, C, at) ==
    /\ pc[p] = at
    /\ \E user \in U : \E delegate \in DelegatesFor(user, U, C), res \in Resolutions :
         IF res # "songs"
         THEN LET r == EarlyReturn("replace", user, ResolveFailure(res))
              IN Finish(p, r.g, r.P, 0, r.o)
         ELSE \E n \in 1..MaxResolved :
                /\ nextId + n - 1 <= MaxSongs
                /\ \E a \in Pick(FindActiveInChannel(ThePool, UserVoiceChannel(delegate, user))),
                      ok \in BOOLEAN :
                     LET r == Replace(GM, ThePool, user, delegate,
                                      ResolvedSongs(user, n), a, ok)
                     IN Finish(p, r.g, r.P, n, r.o)

ReplaceCommandIn(p, U, C) == ReplaceCommandFrom(p, U, C, "locked")

\* The play or replace handler is entered and suspends in Song::load.
Resolving(p) ==
    /\ pc[p] = "locked"
    /\ pc' = [pc EXCEPT ![p] = "resolving"]
    /\ last' = NoLast
    /\ UNCHANGED <<model, pool, guildLock, handling, rival, cast, nextId, locks, ack>>

\* Song::load returns.
Resolved(p) ==
    /\ pc[p] = "resolving"
    /\ pc' = [pc EXCEPT ![p] = "resolved"]
    /\ last' = NoLast
    /\ UNCHANGED <<model, pool, guildLock, handling, rival, cast, nextId, locks, ack>>

\* A play or replace handler that locks the Speaker Pool on entry, before it
\* resolves the term.
LockPoolOnEntry(p) ==
    /\ pc[p] = "locked"
    /\ guildLock = p
    /\ poolLock = Free
    /\ poolLock' = p
    /\ last' = NoLast
    /\ UNCHANGED <<model, pool, msgChannel, guildLock, pc, handling, rival, cast,
                   nextId, other, ack>>

\* The play or replace handler locks the Speaker Pool, with the songs in hand.
LockPoolResolved(p) ==
    /\ pc[p] = "resolved"
    /\ guildLock = p
    /\ poolLock = Free
    /\ poolLock' = p
    /\ last' = NoLast
    /\ UNCHANGED <<model, pool, msgChannel, guildLock, pc, handling, rival, cast,
                   nextId, other, ack>>

\* The rest of the play and replace handlers, once the resolution is back.
PlayResolved(p, U, C) == PlayCommandFrom(p, U, C, FALSE, "resolved")

ReplaceResolved(p, U, C) == ReplaceCommandFrom(p, U, C, "resolved")

\* "pause", "skip", "stop", "nowplaying": the handlers that need only the
\* membership snapshot.
PauseCommandIn(p, U, C) ==
    /\ pc[p] = "locked"
    /\ \E user \in U : \E delegate \in DelegatesAlone(user, C), dok \in BOOLEAN :
         IF ~dok
         THEN LET r == EarlyReturn("pause", user, "Error")
              IN Finish(p, r.g, r.P, 0, r.o)
         ELSE \E a \in Pick(FindActiveInChannel(ThePool, UserVoiceChannel(delegate, user))) :
                LET r == Pause(GM, ThePool, user, delegate, a)
                IN Finish(p, r.g, r.P, 0, r.o)

NowPlayingCommandIn(p, U, C) ==
    /\ pc[p] = "locked"
    /\ \E user \in U : \E delegate \in DelegatesAlone(user, C), dok \in BOOLEAN :
         IF ~dok
         THEN LET r == EarlyReturn("nowplaying", user, "Error")
              IN Finish(p, r.g, r.P, 0, r.o)
         ELSE \E a \in Pick(FindActiveInChannel(ThePool, UserVoiceChannel(delegate, user))) :
                LET r == NowPlaying(GM, ThePool, user, delegate, a)
                IN Finish(p, r.g, r.P, 0, r.o)

SkipCommandIn(p, U, C) ==
    /\ pc[p] = "locked"
    /\ \E user \in U : \E delegate \in DelegatesAlone(user, C), dok \in BOOLEAN :
         IF ~dok
         THEN LET r == EarlyReturn("skip", user, "Error")
              IN Finish(p, r.g, r.P, 0, r.o)
         ELSE \E a \in Pick(FindActiveInChannel(ThePool, UserVoiceChannel(delegate, user))),
                 occ \in Occupancies(delegate) :
                LET r == Skip(GM, ThePool, user, delegate, occ, a)
                IN Finish(p, r.g, r.P, 0, r.o)

StopCommandIn(p, U, C) ==
    /\ pc[p] = "locked"
    /\ \E user \in U : \E delegate \in DelegatesAlone(user, C), dok \in BOOLEAN :
         IF ~dok
         THEN LET r == EarlyReturn("stop", user, "Error")
              IN Finish(p, r.g, r.P, 0, r.o)
         ELSE \E a \in Pick(FindActiveInChannel(ThePool, UserVoiceChannel(delegate, user))),
                 occ \in Occupancies(delegate) :
                LET r == Stop(GM, ThePool, user, delegate, occ, a)
                IN Finish(p, r.g, r.P, 0, r.o)

\* "pet" and unknown command names change nothing but the message channel.
PetCommandIn(p, U) ==
    /\ pc[p] = "locked"
    /\ \E user \in U, status \in {"Pet", "ShinyPet", "Error"} :
         LET r == EarlyReturn("pet", user, status)
         IN Finish(p, r.g, r.P, 0, r.o)

\* The command names an interaction can carry ("other": any unknown name) and
\* what its first option can be: a string, a value of another type, or absent.
CommandNames == {"play", "resume", "replace", "pause", "skip", "stop", "pet",
                 "nowplaying", "other"}

TermOptions == {"string", "number", "absent"}

\* The term "play" reads from its first option: the resolved value is
\* unwrapped, which panics when there is none; a value that is not a string
\* gives the empty term.
PlayTerm(option) ==
    CASE option = "absent" -> "panic"
      [] option = "string" -> "term"
      [] OTHER -> "empty"

\* The term "replace" reads from its first option: the empty term unless the
\* option is a string.
ReplaceTerm(option) == IF option = "string" THEN "term" ELSE "empty"

\* handle_guild_command: dispatch on the command name.  A panic unwinds the
\* task, which drops the guild lock and sends no response.
HandleGuildCommand(p, U, C) ==
    /\ pc[p] = "locked"
    /\ \E name \in CommandNames, option \in TermOptions :
         CASE name = "play" ->
                IF PlayTerm(option) = "panic"
                THEN \E user \in U :
                       LET r == EarlyReturn("play", user, "panic")
                       IN Finish(p, r.g, r.P, 0, r.o)
                ELSE PlayCommandIn(p, U, C)
           [] name = "resume" -> ResumeCommandIn(p, U, C)
           [] name = "replace" ->
                ReplaceTerm(option) \in {"term", "empty"} /\ ReplaceCommandIn(p, U, C)
           [] name = "pause" -> PauseCommandIn(p, U, C)
           [] name = "skip" -> SkipCommandIn(p, U, C)
           [] name = "stop" -> StopCommandIn(p, U, C)
           [] name = "nowplaying" -> NowPlayingCommandIn(p, U, C)
           [] name = "pet" ->
                \E user \in U, status \in {"Pet", "ShinyPet"} :
                   LET r == EarlyReturn("pet", user, status)
                   IN Finish(p, r.g, r.P, 0, r.o)
           [] OTHER ->
                \E user \in U :
                   LET r == EarlyReturn("other", user, "Error")
                   IN Finish(p, r.g, r.P, 0, r.o)

\* handle_command_fallable for an interaction that carries no guild: the
\* NoGuild error is returned before any lock is taken, and handle_command
\* turns it into an error response.
NoGuildCommand(p, U) ==
    /\ pc[p] = "waiting"
    /\ \E user \in U :
         last' = [Outcome("noguild", user, NoDelegate) EXCEPT !.status = "Error"]
    /\ pc' = [pc EXCEPT ![p] = "idle"]
    /\ UNCHANGED <<model, pool, guildLock, handling, rival, cast, nextId, locks, ack>>

\* ------------------------------------------------ completion notifications
RECURSIVE ContinueLoop(_, _, _, _, _, _, _)

\* The loop of continue_channel_playback that puts an Item that failed to play
\* back into its user's sub-queue.
ContinueLoopRequeues(g, P, s, delegate, channel, fails, yielded) ==
    LET nx == NextChannelEntryFinished(g, delegate, channel)
    IN IF nx.item = NoItem
       THEN [g |-> nx.g, P |-> EndedStop(P, s), status |-> "Finished",
             item |-> NoItem, yielded |-> yielded]
       ELSE IF fails = 0
       THEN [g |-> nx.g, P |-> EndedPlay(P, s, nx.item, TRUE), status |-> "Playing",
             item |-> nx.item, yielded |-> Append(yielded, nx.item)]
       ELSE ContinueLoop(PushEntries(nx.g, nx.item.user, <<nx.item>>),
                         EndedPlay(P, s, nx.item, FALSE), s, delegate,
                         channel, fails - 1, Append(yielded, nx.item))

\* The loop of continue_channel_playback that, when no Item is left, leaves
\* the Guild Model as it found it.
ContinueLoopStaysActive(g, P, s, delegate, channel, fails, yielded) ==
    LET nx == NextChannelEntryFinished(g, delegate, channel)
    IN IF nx.item = NoItem
       THEN [g |-> g, P |-> EndedStop(P, s), status |-> "Finished",
             item |-> NoItem, yielded |-> yielded]
       ELSE IF fails = 0
       THEN [g |-> nx.g, P |-> EndedPlay(P, s, nx.item, TRUE), status |-> "Playing",
             item |-> nx.item, yielded |-> Append(yielded, nx.item)]
       ELSE ContinueLoop(nx.g, EndedPlay(P, s, nx.item, FALSE), s, delegate,
                         channel, fails - 1, Append(yielded, nx.item))

\* The loop of continue_channel_playback: pull the next Item and play it on
\* the ended Speaker until one plays or none is left.  The first `fails`
\* play attempts fail; `yielded` are the Items pulled so far.
ContinueLoop(g, P, s, delegate, channel, fails, yielded) ==
    LET nx == NextChannelEntryFinished(g, delegate, channel)
    IN IF nx.item = NoItem
       THEN [g |-> nx.g, P |-> EndedStop(P, s), status |-> "Finished",
             item |-> NoItem, yielded |-> yielded]
       ELSE IF fails = 0
       THEN [g |-> nx.g, P |-> EndedPlay(P, s, nx.item, TRUE), status |-> "Playing",
             item |-> nx.item, yielded |-> Append(yielded, nx.item)]
       ELSE ContinueLoop(nx.g, EndedPlay(P, s, nx.item, FALSE), s, delegate,
                         channel, fails - 1, Append(yielded, nx.item))

\* continue_channel_playback that goes on in the channel the Speaker is in
\* now, wherever the playback was started.
ContinueAfterMove(g, P, s, started, current, dok, delegate, fails) ==
    IF IsChannelStopped(g, current)
    THEN [g |-> g, P |-> EndedStop(P, s), status |-> "Stopped",
          item |-> NoItem, yielded |-> <<>>]
    ELSE IF ~dok
    THEN [g |-> g, P |-> P, status |-> "Error", item |-> NoItem, yielded |-> <<>>]
    ELSE ContinueLoop(g, P, s, delegate, current, fails, <<>>)

\* continue_channel_playback that does not ask whether the channel is stopped.
ContinueIgnoresStopped(g, P, s, started, current, dok, delegate, fails) ==
    IF started # current
    THEN [g |-> SetChannelStopped(g, started), P |-> EndedStop(P, s),
          status |-> "Moved", item |-> NoItem, yielded |-> <<>>]
    ELSE IF ~dok
    THEN [g |-> g, P |-> P, status |-> "Error", item |-> NoItem, yielded |-> <<>>]
    ELSE ContinueLoop(g, P, s, delegate, current, fails, <<>>)

\* continue_channel_playback.
ContinueChannelPlayback(g, P, s, started, current, dok, delegate, fails) ==
    IF started # current
    THEN [g |-> SetChannelStopped(g, started), P |-> EndedStop(P, s),
          status |-> "Moved", item |-> NoItem, yielded |-> <<>>]
    ELSE IF IsChannelStopped(g, current)
    THEN [g |-> g, P |-> EndedStop(P, s), status |-> "Stopped",
          item |-> NoItem, yielded |-> <<>>]
    ELSE IF ~dok
    THEN [g |-> g, P |-> P, status |-> "Error", item |-> NoItem, yielded |-> <<>>]
    ELSE ContinueLoop(g, P, s, delegate, current, fails, <<>>)

\* The body of handle_playback_ended once both locks are held.
PlaybackEnded(g, P, s, started, dok, delegate, fails) ==
    LET current == P.speakers[s].channel
    IN IF current = NoChannel
       THEN [g |-> SetChannelStopped(g, started), P |-> EndedStop(P, s),
             status |-> "Disconnected", item |-> NoItem, yielded |-> <<>>]
       ELSE ContinueChannelPlayback(g, P, s, started, current, dok, delegate, fails)

\* handle_playback_ended, first part: the spawned task takes the guild lock.
EndedLock ==
    /\ GuildLockAvailable
    /\ handling = NoNotification
    /\ \E n \in ended :
         /\ handling' = n
         /\ ended' = ended \ {n}
    /\ guildLock' = EndedTask
    /\ last' = NoLast
    /\ UNCHANGED <<model, speakers, pc, rival, cast, nextId, locks, ack>>

\* ------------------------------------------------------------ another guild
\* Every variable but other belongs to guild "A"; other is a command handler
\* of guild "B" with the two locks of that guild.

\* A map from guild to Guild Model that hands every guild the same handle.
OneModelLock(guild) == guildLock

\* self.model.get(guild_id): the holder of the lock of that guild's Guild
\* Model.
ModelLock(guild) == IF guild = "A" THEN guildLock ELSE other.model

\* backend_brain.guild_speakers(guild_id): the holder of the lock of that
\* guild's Speaker Pool.
SpeakersLock(guild) == IF guild = "A" THEN poolLock ELSE other.pool

\* handle_command for an interaction of guild B.
OtherReceive ==
    /\ other.pc = "idle"
    /\ other' = [other EXCEPT !.pc = "waiting"]
    /\ UNCHANGED <<model, pool, msgChannel, guildLock, pc, handling, last, rival,
                   cast, nextId, poolLock, ack>>

\* handle_command_fallable of guild B: lock B's Guild Model.
OtherLockGuild ==
    /\ other.pc = "waiting"
    /\ ModelLock("B") = Free
    /\ other' = [other EXCEPT !.pc = "locked", !.model = "B"]
    /\ UNCHANGED <<model, pool, msgChannel, guildLock, pc, handling, last, rival,
                   cast, nextId, poolLock, ack>>

\* A command handler of guild B locks B's Speaker Pool.
OtherLockPool ==
    /\ other.pc = "locked"
    /\ SpeakersLock("B") = Free
    /\ other' = [other EXCEPT !.pc = "pooled", !.pool = "B"]
    /\ UNCHANGED <<model, pool, msgChannel, guildLock, pc, handling, last, rival,
                   cast, nextId, poolLock, ack>>

\* The command of guild B returns and drops both guards.
OtherReturns ==
    /\ other.pc = "pooled"
    /\ other' = NoOther
    /\ UNCHANGED <<model, pool, msgChannel, guildLock, pc, handling, last, rival,
                   cast, nextId, poolLock, ack>>

\* handle_playback_ended that locks the ended handle, and with it the Speaker
\* Pool, before it asks for the Guild Model lock.
EndedLockPoolFirst ==
    /\ ended # {}
    /\ handling = NoNotification
    /\ poolLock = Free
    /\ poolLock' = EndedTask
    /\ last' = NoLast
    /\ UNCHANGED <<model, pool, msgChannel, guildLock, pc, handling, rival, cast,
                   nextId, other, ack>>

\* handle_playback_ended, second part: ended_handle.lock() takes the lock of
\* the Speaker Pool, after the Guild Model lock.
EndedLockPool ==
    /\ handling # NoNotification
    /\ guildLock = EndedTask
    /\ poolLock = Free
    /\ poolLock' = EndedTask
    /\ last' = NoLast
    /\ UNCHANGED <<model, pool, msgChannel, guildLock, pc, handling, rival, cast,
                   nextId, other, ack>>

\* handle_playback_ended, the decision and the release of the locks.
EndedDecideIn(U) ==
    /\ handling # NoNotification
    /\ poolLock \in {Free, EndedTask}
    /\ \E dok \in BOOLEAN, delegate \in DelegatesAt(speakers[handling.speaker].channel, U),
          fails \in 0..MaxSongs :
         LET s == handling.speaker
             r == PlaybackEnded(GM, ThePool, s, handling.started, dok, delegate, fails)
         IN /\ fails <= Len(queues[UserOrder[1]]) + Len(queues[UserOrder[2]])
            /\ queues' = r.g.queues
            /\ playing' = r.g.playing
            /\ stopped' = r.g.stopped
            /\ cursor' = r.g.cursor
            /\ votes' = r.g.votes
            /\ speakers' = r.P.speakers
            /\ ended' = r.P.ended
            /\ last' = [NoLast EXCEPT !.cmd = "ended", !.status = r.status,
                                       !.started = handling.started,
                                       !.channel = speakers[s].channel,
                                       !.members = delegate.members,
                                       !.speaker = s, !.item = r.item,
                                       !.old = handling.item,
                                       !.tried = Len(r.yielded),
                                       !.yielded = r.yielded,
                                       !.voters = votes[handling.started],
                                       !.posted = msgChannel]
            /\ cast' = VotesCast(r.g, NoLast)
    /\ handling' = NoNotification
    /\ guildLock' = IF guildLock = EndedTask THEN Free ELSE guildLock
    /\ poolLock' = IF poolLock = EndedTask THEN Free ELSE poolLock
    /\ UNCHANGED <<msgChannel, pc, rival, nextId, other, ack>>

\* ------------------------------------------------------------ environment
\* The track a Speaker is playing reaches its end.
TrackEnds(s) ==
    /\ speakers[s].state = "Playing"
    /\ LET P == EndPlayback(ThePool, s)
       IN speakers' = P.speakers /\ ended' = P.ended
    /\ last' = NoLast
    /\ UNCHANGED <<model, guildLock, pc, handling, rival, cast, nextId, locks, ack>>

\* An external event moves a bound Speaker to another channel or disconnects
\* it (NoChannel); a playback on it ends.
SpeakerMoved(s) ==
    /\ speakers[s].channel # NoChannel
    /\ \E c \in ChanOpt \ {speakers[s].channel} :
         LET P == SpeakerStop(ThePool, s)
         IN /\ speakers' = [P.speakers EXCEPT ![s].channel = c]
            /\ ended' = P.ended
    /\ last' = NoLast
    /\ UNCHANGED <<model, guildLock, pc, handling, rival, cast, nextId, locks, ack>>

PlayCommand(p) == PlayCommandIn(p, Users, Channels)

ResumeCommand(p) == ResumeCommandIn(p, Users, Channels)

ReplaceCommand(p) == ReplaceCommandIn(p, Users, Channels)

PauseCommand(p) == PauseCommandIn(p, Users, Channels)

NowPlayingCommand(p) == NowPlayingCommandIn(p, Users, Channels)

SkipCommand(p) == SkipCommandIn(p, Users, Channels)

StopCommand(p) == StopCommandIn(p, Users, Channels)

PetCommand(p) == PetCommandIn(p, Users)

EndedDecide == EndedDecideIn(Users)

Command(p) ==
    \/ PlayCommand(p)
    \/ ResumeCommand(p)
    \/ ReplaceCommand(p)
    \/ PauseCommand(p)
    \/ NowPlayingCommand(p)
    \/ SkipCommand(p)
    \/ StopCommand(p)
    \/ PetCommand(p)

\* Every task, every command, every input.
Next ==
    \/ \E p \in Procs : Receive(p)
    \/ \E p \in Procs : LockGuild(p)
    \/ \E p \in Procs : Command(p)
    \/ EndedLock
    \/ EndedDecide
    \/ \E s \in Speakers : TrackEnds(s)
    \/ \E s \in Speakers : SpeakerMoved(s)

Spec == Init /\ [][Next]_vars

\* ------------------------------------------------------------- scenarios
\* Two command tasks race to play or resume in one channel.
NextRace ==
    \/ \E p \in Procs : Receive(p)
    \/ \E p \in Procs : LockGuildIn(p, {"m1"})
    \/ \E p \in Procs : PlayCommandIn(p, Users, {"c1"})
    \/ \E p \in Procs : ResumeCommandIn(p, Users, {"c1"})
    \/ EndedLock
    \/ EndedDecideIn(Users)
    \/ \E s \in Speakers : TrackEnds(s)

SpecRace == Init /\ [][NextRace]_vars

\* One user drives both Speakers over both channels, and Speakers are moved.
NextPool ==
    \/ Receive("p1")
    \/ LockGuildIn("p1", {"m1"})
    \/ PlayCommandIn("p1", {"u1"}, Channels)
    \/ ResumeCommandIn("p1", {"u1"}, Channels)
    \/ ReplaceCommandIn("p1", {"u1"}, Channels)
    \/ PauseCommandIn("p1", {"u1"}, Channels)
    \/ EndedLock
    \/ EndedDecideIn({"u1"})
    \/ \E s \in Speakers : TrackEnds(s)
    \/ \E s \in Speakers : SpeakerMoved(s)

SpecPool == Init /\ [][NextPool]_vars

\* One user queues in one channel; both users vote to skip and to stop.
NextVote ==
    \/ Receive("p1")
    \/ LockGuildIn("p1", {"m1"})
    \/ PlayCommandIn("p1", {"u1"}, {"c1"})
    \/ SkipCommandIn("p1", Users, {"c1"})
    \/ StopCommandIn("p1", Users, {"c1"})
    \/ EndedLock
    \/ EndedDecideIn({"u1"})

SpecVote == Init /\ [][NextVote]_vars

\* Two users queue in one channel; one of them stops and resumes playback.
NextStop ==
    \/ Receive("p1")
    \/ LockGuildIn("p1", {"m1"})
    \/ PlayCommandIn("p1", Users, {"c1"})
    \/ ResumeCommandIn("p1", {"u1"}, {"c1"})
    \/ StopCommandIn("p1", {"u1"}, {"c1"})
    \/ EndedLock
    \/ EndedDecideIn(Users)
    \/ \E s \in Speakers : TrackEnds(s)

SpecStop == Init /\ [][NextStop]_vars

\* Two users of one channel queue, replace and resume.
NextQueue ==
    \/ Receive("p1")
    \/ LockGuildIn("p1", {"m1"})
    \/ PlayCommandIn("p1", Users, {"c1"})
    \/ ReplaceCommandIn("p1", Users, {"c1"})
    \/ ResumeCommandIn("p1", Users, {"c1"})
    \/ EndedLock
    \/ EndedDecideIn(Users)
    \/ \E s \in Speakers : TrackEnds(s)

SpecQueue == Init /\ [][NextQueue]_vars

\* An Item of u1 is playing on s1 in c1 and MaxSongs Items, requested by the
\* two users in any order, are queued behind it; tracks end, playbacks fail,
\* users resume.
InitRetry ==
    \E owner \in [1..MaxSongs -> Users] :
        LET first == [id |-> 1, user |-> "u1"]
            behind == [i \in 1..MaxSongs |-> [id |-> i + 1, user |-> owner[i]]]
        IN /\ queues = [u \in Users |-> SelectSeq(behind, LAMBDA it : it.user = u)]
           /\ playing = [c \in Channels |-> IF c = "c1" THEN first ELSE NoItem]
           /\ stopped = [c \in Channels |-> FALSE]
           /\ cursor = [c \in Channels |-> IF c = "c1" THEN "u1" ELSE NoUser]
           /\ votes = [c \in Channels |-> FreshVotes]
           /\ msgChannel = "m1"
           /\ speakers = [s \in Speakers |->
                             IF s = "s1"
                             THEN [channel |-> "c1", state |-> "Playing",
                                   item |-> first, started |-> "c1"]
                             ELSE IdleSpeaker]
           /\ ended = {}
           /\ guildLock = Free
           /\ pc = [p \in Procs |-> "idle"]
           /\ handling = NoNotification
           /\ last = NoLast
           /\ rival = NoRival
           /\ cast = [c \in Channels |-> FreshVotes]
           /\ nextId = MaxSongs + 2
           /\ poolLock = Free
           /\ other = NoOther
           /\ ack = [p \in Procs |-> NoAck]

NextRetry ==
    \/ Receive("p1")
    \/ LockGuildIn("p1", {"m1"})
    \/ ResumeCommandIn("p1", Users, {"c1"})
    \/ EndedLock
    \/ EndedDecideIn(Users)
    \/ \E s \in Speakers : TrackEnds(s)

SpecRetry == InitRetry /\ [][NextRetry]_vars

\* One user plays and skips in one channel while tracks reach their
\* end and the first Speaker is moved or disconnected.  A track that is playing
\* reaches its end unless its playback is ended before.
NextEnds ==
    \/ Receive("p1")
    \/ LockGuildIn("p1", {"m1"})
    \/ PlayCommandIn("p1", {"u1"}, {"c1"})
    \/ SkipCommandIn("p1", {"u1"}, {"c1"})
    \/ EndedLock
    \/ EndedDecideIn({"u1"})
    \/ \E s \in Speakers : TrackEnds(s)
    \/ SpeakerMoved("s1")

SpecEnds ==
    Init /\ [][NextEnds]_vars /\ \A s \in Speakers : WF_vars(TrackEnds(s))

\* One user plays in one channel; the play command is suspended while its
\* response is sent, and the track it started can end in the meantime.
NextOrder ==
    \/ Receive("p1")
    \/ LockGuildIn("p1", {"m1"})
    \/ PlayCommandSending("p1", Users, {"c1"})
    \/ Respond("p1")
    \/ EndedLock
    \/ EndedDecideIn(Users)
    \/ \E s \in Speakers : TrackEnds(s)

SpecOrder == Init /\ [][NextOrder]_vars

\* Two users of one channel play and replace, with commands sent from two
\* message channels and resolutions that fail.
NextResolve ==
    \/ Receive("p1")
    \/ LockGuildIn("p1", MsgChannels)
    \/ PlayCommandIn("p1", Users, {"c1"})
    \/ ReplaceCommandIn("p1", Users, {"c1"})
    \/ EndedLock
    \/ EndedDecideIn(Users)
    \/ \E s \in Speakers : TrackEnds(s)

SpecResolve == Init /\ [][NextResolve]_vars

\* One user plays in both channels; the other votes to skip in either channel
\* and to stop in the first.
NextTrackers ==
    \/ Receive("p1")
    \/ LockGuildIn("p1", {"m1"})
    \/ PlayCommandIn("p1", {"u1"}, Channels)
    \/ SkipCommandIn("p1", {"u2"}, Channels)
    \/ StopCommandIn("p1", {"u2"}, {"c1"})
    \/ EndedLock
    \/ EndedDecideIn({"u1"})

SpecTrackers == Init /\ [][NextTrackers]_vars

\* A play command sent while both users are in the first channel, and whose
\* play, if it starts one, succeeds (the channel is not marked stopped).
PlayInChannel ==
    /\ PlayCommandIn("p1", Users, {"c1"})
    /\ last'.n > 0 => last'.members = Users
    /\ ~stopped'["c1"]

\* A completion handled while both users are in the channel and the
\* membership lookup succeeds.
EndedInChannel ==
    /\ EndedDecideIn(Users)
    /\ last'.status # "Error"
    /\ last'.members = Users

\* The handler of the command task that holds the guild lock returns.
CommandReturns(p) ==
    /\ pc[p] = "locked"
    /\ pc' = [pc EXCEPT ![p] = "idle"]

\* The playback-ended task that holds the guild lock returns.
EndedReturns ==
    /\ handling # NoNotification
    /\ handling' = NoNotification

\* Two users stay in one channel and queue.  Every track reaches its end, a
\* completion task that waits for the guild lock gets it, and a handler that
\* holds the lock finishes.
NextFair ==
    \/ Receive("p1")
    \/ LockGuildIn("p1", {"m1"})
    \/ PlayInChannel
    \/ EndedLock
    \/ EndedInChannel
    \/ \E s \in Speakers : TrackEnds(s)

SpecFair ==
    /\ Init /\ [][NextFair]_vars
    /\ \A s \in Speakers : WF_vars(TrackEnds(s))
    /\ WF_pc(CommandReturns("p1"))
    /\ SF_vars(EndedLock)
    /\ WF_handling(EndedReturns)

\* One user sends every command, with or without a term and in or out of a
\* guild, in one channel.
NextCommands ==
    \/ Receive("p1")
    \/ NoGuildCommand("p1", {"u1"})
    \/ LockGuildIn("p1", {"m1"})
    \/ HandleGuildCommand("p1", {"u1"}, {"c1"})
    \/ EndedLock
    \/ EndedDecideIn({"u1"})
    \/ \E s \in Speakers : TrackEnds(s)

SpecCommands == Init /\ [][NextCommands]_vars

\* One command handler and the completion task of one guild, each taking the
\* Guild Model lock and the Speaker Pool lock in separate steps.
NextLocks ==
    \/ Receive("p1")
    \/ LockGuildIn("p1", {"m1"})
    \/ LockPool("p1")
    \/ PlayCommandIn("p1", {"u1"}, {"c1"})
    \/ SkipCommandIn("p1", {"u1"}, {"c1"})
    \/ StopCommandIn("p1", {"u1"}, {"c1"})
    \/ EndedLock
    \/ EndedLockPool
    \/ EndedDecideIn({"u1"})
    \/ \E s \in Speakers : TrackEnds(s)

SpecLocks == Init /\ [][NextLocks]_vars

\* The handlers of guild A, which may hold their locks for ever, and a command
\* of guild B, which is scheduled whenever it can run.
NextGuilds ==
    \/ Receive("p1")
    \/ LockGuildIn("p1", {"m1"})
    \/ LockPool("p1")
    \/ PlayCommandIn("p1", {"u1"}, {"c1"})
    \/ EndedLock
    \/ EndedLockPool
    \/ EndedDecideIn({"u1"})
    \/ \E s \in Speakers : TrackEnds(s)
    \/ OtherReceive
    \/ OtherLockGuild
    \/ OtherLockPool
    \/ OtherReturns

SpecGuilds ==
    /\ Init /\ [][NextGuilds]_vars
    /\ WF_other(OtherLockGuild)
    /\ WF_other(OtherLockPool)
    /\ WF_other(OtherReturns)

\* Two command tasks of one user play, pause and resume in one channel while
\* tracks end.
NextPause ==
    \/ \E p \in Procs : Receive(p)
    \/ \E p \in Procs : LockGuildIn(p, {"m1"})
    \/ \E p \in Procs : PlayCommandIn(p, {"u1"}, {"c1"})
    \/ \E p \in Procs : PauseCommandIn(p, {"u1"}, {"c1"})
    \/ \E p \in Procs : ResumeCommandIn(p, {"u1"}, {"c1"})
    \/ EndedLock
    \/ EndedDecideIn({"u1"})
    \/ \E s \in Speakers : TrackEnds(s)

SpecPause == Init /\ [][NextPause]_vars

\* One task plays for the first user while the other task votes to skip and
\* to stop for the second, in one channel: a vote can be issued while the
\* resolution of a play is in flight.
NextFlight ==
    \/ \E p \in Procs : Receive(p)
    \/ \E p \in Procs : LockGuildIn(p, {"m1"})
    \/ PlayCommandIn("p1", {"u1"}, {"c1"})
    \/ SkipCommandIn("p2", {"u2"}, {"c1"})
    \/ StopCommandIn("p2", {"u2"}, {"c1"})
    \/ EndedLock
    \/ EndedDecideIn({"u1"})

SpecFlight == Init /\ [][NextFlight]_vars

\* One user plays, replaces and skips in one channel; the resolution of a term
\* and the taking of the pool lock are steps of their own.
NextResolving ==
    \/ Receive("p1")
    \/ LockGuildIn("p1", {"m1"})
    \/ Resolving("p1")
    \/ Resolved("p1")
    \/ LockPoolResolved("p1")
    \/ PlayResolved("p1", {"u1"}, {"c1"})
    \/ ReplaceResolved("p1", {"u1"}, {"c1"})
    \/ SkipCommandIn("p1", {"u1"}, {"c1"})
    \/ EndedLock
    \/ EndedLockPool
    \/ EndedDecideIn({"u1"})
    \/ \E s \in Speakers : TrackEnds(s)

SpecResolving == Init /\ [][NextResolving]_vars

\* One task runs play commands of one user; each command races its
\* deferred-acknowledgement timer.
NextDeferred ==
    \/ ReceiveDeferring("p1")
    \/ LockGuildIn("p1", {"m1"})
    \/ PlayCommandWith("p1", {"u1"}, {"c1"}, TRUE)
    \/ TimerElapses("p1")
    \/ DeferredSelect("p1")
    \/ DeferredCreated("p1")
    \/ SendResult("p1")
    \/ ResultSent("p1")
    \/ EndedLock
    \/ EndedDecideIn({"u1"})
    \/ \E s \in Speakers : TrackEnds(s)

SpecDeferred == Init /\ [][NextDeferred]_vars

TypeOK ==
    /\ pc \in [Procs -> {"idle", "waiting", "locked", "sending", "resolving",
                         "resolved"}]
    /\ guildLock \in Procs \cup {Free, EndedTask}
    /\ nextId \in 1..(MaxSongs + 2)
    /\ poolLock \in Procs \cup {Free, EndedTask}
    /\ other \in [pc : {"idle", "waiting", "locked", "pooled"},
                  model : {Free, "B"}, pool : {Free, "B"}]
    /\ ack \in [Procs -> [timer : {"off", "armed", "elapsed"},
                          rx : {"none", "open", "sent", "dropped"},
                          deferred : {"idle", "select", "creating", "done"},
                          shown : BOOLEAN,
                          sent : {"none", "create", "edit"}]]

\* -------------------------------------------------------------- properties
\* The handler that ran in the step bound a Speaker and started an Item.
Started(o) == o.status = "Playing" /\ o.op = "Entry"

\* The handler that ran in the step saw the channel busy: AlreadyPlaying from
\* next_for_channel, an active Speaker, or no Speaker to play on.
SawBusy(o) ==
    \/ o.op = "AlreadyPlaying"
    \/ o.status \in {"QueuedNoSpeakers", "NoSpeakersError", "AlreadyPlayingError"}

\* The step only appended the o.n Items of the command to its user's sub-queue.
OnlyEnqueued(o) ==
    \A u \in Users :
        /\ IsPrefix(queues[u], queues'[u])
        /\ Len(queues'[u]) = Len(queues[u]) + (IF u = o.user THEN o.n ELSE 0)

\* C1 as the spec states it, for two concurrent play commands that both bring
\* Items to the same idle channel: exactly one of the two binds a Speaker and
\* starts playback, and the one decided later, if it is not the one, sees the
\* channel busy and its Items stay queued.
C1_ExactlyOneBinds ==
    [][\A q \in Procs :
          (/\ pc[q] = "locked" /\ pc'[q] = "idle"
           /\ last'.raced /\ last'.n >= 1 /\ rival.n >= 1)
          => /\ Started(last') # (last'.after # NoItem)
             /\ ~Started(last') => SawBusy(last') /\ OnlyEnqueued(last')]_vars

\* C1, amended: of the concurrent play attempts on the same idle channel, an
\* attempt decided while the Item started by an earlier one is still the
\* channel's active Item does not start playback, sees the channel busy
\* (AlreadyPlaying, an active Speaker or no Speaker), leaves the active Item
\* and the Speakers alone, and its Items stay queued.
C1_AtMostOneWhileActive ==
    [][\A q \in Procs :
          (/\ pc[q] = "locked" /\ pc'[q] = "idle"
           /\ last'.after # NoItem
           /\ playing[last'.channel] = last'.after)
          => /\ ~Started(last')
             /\ SawBusy(last')
             /\ OnlyEnqueued(last')
             /\ playing' = playing
             /\ speakers' = speakers]_vars

\* A later play attempt queued its Items behind the Item a concurrent attempt
\* had started.
C1_Witness ==
    /\ last.cmd = "play"
    /\ last.after # NoItem
    /\ playing[last.channel] = last.after
    /\ last.op = "AlreadyPlaying"
    /\ last.n >= 1
    /\ queues[last.user] # <<>>

C3_OneDecisionAtATime ==
    LET inside == {p \in Procs : pc[p] = "locked"}
    IN /\ Cardinality(inside) + (IF handling # NoNotification THEN 1 ELSE 0) <= 1
       /\ \A p \in inside : guildLock = p
       /\ handling # NoNotification => guildLock = EndedTask
       /\ guildLock = Free => inside = {} /\ handling = NoNotification

\* A command is inside its decision span while another command and a
\* completion notification wait for the lock.
C3_Witness ==
    /\ \E p, q \in Procs : pc[p] = "locked" /\ pc[q] = "waiting"
    /\ ended # {}

\* The Items of a sequence, and how many of them a user requested.
ItemsOf(y) == {y[i] : i \in 1..Len(y)}

YieldsOf(y, u) == Cardinality({i \in 1..Len(y) : y[i].user = u})

\* C4: the Items a handler pulls for a channel through next_for_channel or
\* next_for_channel_after_finish come from users in the channel, each the
\* head of its user's sub-queue, and an Item never follows an Item of the
\* same user (the one pulled before it, in this handler or an earlier one)
\* while another user in the channel has a non-empty sub-queue.
C4_RoundRobin ==
    [][last'.yielded # <<>>
       => LET y == last'.yielded
              c == last'.channel
              who(i) == IF i = 0 THEN cursor[c] ELSE y[i].user
          IN \A i \in 1..Len(y) :
                /\ y[i].user \in last'.members
                /\ who(i) = who(i - 1)
                   => \A v \in last'.members \ {who(i)} :
                         /\ queues'[v] = <<>>
                         /\ \A j \in (i + 1)..Len(y) : y[j].user # v]_vars

\* After an Item of one user ended, the Item of the other user was pulled
\* although the first user still has an Item queued.
C4_Witness ==
    /\ last.cmd = "ended"
    /\ last.status = "Playing"
    /\ last.old.user \in last.members
    /\ last.item.user \in last.members \ {last.old.user}
    /\ queues[last.old.user] # <<>>

C6_RetryAfterFailedPlays ==
    [][(handling # NoNotification /\ last'.cmd = "ended" /\ last'.status = "Playing")
       => LET y == last'.yielded
              s == handling.speaker
          IN /\ y # <<>>
             /\ last'.item = Last(y)
             /\ speakers'[s].state = "Playing"
             /\ speakers'[s].item = Last(y)
             /\ playing'[last'.channel] = Last(y)
             /\ \A n \in ended' : n.item \notin ItemsOf(Front(y))
             /\ \A u \in Users :
                   /\ ItemsOf(queues'[u]) \cap ItemsOf(y) = {}
                   /\ queues'[u] = SubSeq(queues[u], YieldsOf(y, u) + 1,
                                          Len(queues[u]))]_vars

\* With three Items queued, a completion handler played the third after the
\* plays of the first two had failed.
C6_Witness ==
    /\ last.cmd = "ended"
    /\ last.status = "Playing"
    /\ last.tried = 3
    /\ speakers[last.speaker].item = last.item
    /\ \A u \in Users : ItemsOf(queues[u]) \cap ItemsOf(last.yielded) = {}

\* The command that ran in the step found no Speaker to play on: none is
\* bound to the channel and idle, none is free, and (resume) none is active.
PoolExhausted(o) ==
    /\ o.channel # NoChannel
    /\ FindToPlayInChannel(ThePool, o.channel) = {}
    /\ \/ o.cmd = "play" /\ o.n >= 1
       \/ o.cmd = "resume" /\ FindActiveInChannel(ThePool, o.channel) = {}

\* C7: a play or resume command that finds the Speaker Pool exhausted answers
\* that no Speaker is available and leaves the Guild Model's queue alone but
\* for appending the command's own Items: nothing is selected, removed or
\* dropped, and the channels' state and the Speakers are unchanged.
C7_ExhaustedPoolKeepsQueue ==
    [][\A p \in Procs :
          (pc[p] = "locked" /\ pc'[p] = "idle" /\ PoolExhausted(last'))
          => /\ last'.status = (IF last'.cmd = "play" THEN "QueuedNoSpeakers"
                                 ELSE "NoSpeakersError")
             /\ OnlyEnqueued(last')
             /\ last'.item = NoItem
             /\ <<playing, stopped, cursor, votes, speakers, ended>>' =
                   <<playing, stopped, cursor, votes, speakers, ended>>]_vars

\* A play command found both Speakers busy in the other channel and left its
\* Items queued.
C7_Witness ==
    /\ last.cmd = "play"
    /\ last.status = "QueuedNoSpeakers"
    /\ last.n >= 1
    /\ Len(queues[last.user]) >= last.n
    /\ \A s \in Speakers : speakers[s].channel \notin {NoChannel, last.channel}

\* C8: replace_latest, as handle_replace_command calls it with the user's
\* voice channel: it returns ReplacedInQueue with the exact old Item when the
\* user has an Item queued, and the new Item takes its place; ReplacedCurrent
\* when the user has none queued but the user's Item is the active one of the
\* channel; and Queued otherwise, when it only enqueues.
C8_ReplaceLatest ==
    [][(last'.cmd = "replace" /\ last'.n >= 1)
       => LET u == last'.user
              c == last'.channel
              songs == ResolvedSongs(u, last'.n)
              current == c # NoChannel /\ playing[c].user = u
          IN /\ queues[u] # <<>>
                => /\ last'.op = "ReplacedInQueue"
                   /\ last'.old = Last(queues[u])
                   /\ queues'[u] = Front(queues[u]) \o songs
                   /\ playing' = playing
             /\ (queues[u] = <<>> /\ current) => last'.op = "ReplacedCurrent"
             /\ (queues[u] = <<>> /\ ~current)
                => /\ last'.op = "Queued"
                   /\ last'.old = NoItem
                   /\ queues'[u] = songs
                   /\ playing' = playing
             /\ \A v \in Users \ {u} :
                   last'.op # "ReplacedCurrent" => queues'[v] = queues[v]]_vars

\* The user's only queued Item was replaced while another Item was playing.
C8_Witness ==
    /\ last.cmd = "replace"
    /\ last.op = "ReplacedInQueue"
    /\ last.old.user = last.user
    /\ last.old \notin ItemsOf(queues[last.user])
    /\ Len(queues[last.user]) = 1
    /\ queues[last.user][1].id > last.old.id
    /\ \E c \in Channels : playing[c] # NoItem

\* The vote a skip or stop command cast in the step: its kind, and whether
\* the command got as far as voting.
KindOf(o) == IF o.cmd = "skip" THEN "Skip" ELSE "Stop"

Voted(o) == o.cmd \in {"skip", "stop"} /\ o.channel # NoChannel /\ o.op # "-"

C10_VoteOutcome ==
    [][Voted(last')
       => LET c == last'.channel
              k == KindOf(last')
              u == last'.user
              count == Cardinality(votes[c][k]) + 1
              needed == VoteThreshold(last'.occ)
          IN /\ needed >= 1
             /\ needed <= Max(1, last'.occ)
             /\ \A j \in VoteKinds \ {k} : votes'[c][j] = votes[c][j]
             /\ playing[c] = NoItem
                => last'.op = "NothingPlaying" /\ votes' = votes
             /\ (playing[c] # NoItem /\ u \notin votes[c][k])
                => IF count >= needed
                   THEN last'.op = "Success" /\ votes'[c][k] = {}
                   ELSE /\ last'.op = "NeedsMoreVotes"
                        /\ last'.count = needed - count
                        /\ last'.count >= 1
                        /\ votes'[c][k] = votes[c][k] \cup {u}
             /\ (playing[c] # NoItem /\ u \notin votes[c][k] /\ last'.occ = 1)
                => last'.op = "Success"]_vars

\* The second voter of a channel of three reached the threshold.
C10_Witness ==
    /\ Voted(last)
    /\ last.op = "Success"
    /\ last.occ = 3
    /\ votes[last.channel][KindOf(last)] = {}
    /\ last.user \in cast[last.channel][KindOf(last)]
    /\ Cardinality(cast[last.channel][KindOf(last)]) = 2

\* The completion notifications spawned and not yet decided on.
Notifications == ended \cup ({handling} \ {NoNotification})

\* The notification the callback of the playback on Speaker s carries.
Playback(s) ==
    [speaker |-> s, started |-> speakers[s].started, item |-> speakers[s].item]

\* The playback running on Speaker s ends in the step.
PlaybackEnds(s) ==
    /\ IsActive(speakers[s])
    /\ ~IsActive(speakers'[s]) \/ speakers'[s].item # speakers[s].item

\* C11: in the step in which a playback ends (the track reaches its end, a
\* skip, stop or replace stops the Speaker, or the Speaker is moved or
\* disconnected) the callback of that play is invoked and spawns one
\* notification; no notification is spawned but for a playback that ends in
\* the step; an Item with a notification is no longer played or queued, so
\* that no second one follows; and a track that is playing does get its
\* notification.
C11_CallbackExactlyOnce ==
    /\ [][/\ \A s \in Speakers :
                PlaybackEnds(s) => Playback(s) \in ended' \ Notifications
           /\ \A n \in ended' \ ended :
                PlaybackEnds(n.speaker) /\ n = Playback(n.speaker)]_vars
    /\ [](\A n \in Notifications :
             /\ n.item # NoItem
             /\ \A m \in Notifications : m.item = n.item => m = n
             /\ \A s \in Speakers : speakers[s].item # n.item
             /\ \A u \in Users : \A i \in 1..Len(queues[u]) : queues[u][i] # n.item)
    /\ \A s \in Speakers, i \in 1..(MaxSongs + 1) :
          (speakers[s].state = "Playing" /\ speakers[s].item.id = i)
          ~> (\E n \in ended : n.speaker = s /\ n.item.id = i)

\* The callback of a playback that a skip ended has spawned its notification,
\* while the Guild Model still has the Item as the channel's active one.
C11_Witness ==
    /\ last.cmd = "skip"
    /\ last.status = "Skipped"
    /\ \E n \in ended : n.item = last.item /\ playing[n.started] = n.item

\* C12: while the completion handler decides on a notification it holds the
\* guild lock and no command is inside its handler or still sending its
\* response, so the handler that started the Item has finished; every
\* notification, waiting or being decided on, is for an Item that was
\* resolved, selected and started before and is played no more; and no two
\* notifications are for the same Item.
C12_HandledAfterStart ==
    /\ handling # NoNotification
       => /\ guildLock = EndedTask
          /\ \A p \in Procs : pc[p] \notin {"locked", "sending"}
    /\ \A n \in Notifications :
          /\ n.item.id \in 1..(nextId - 1)
          /\ n.started \in Channels
          /\ \A s \in Speakers : ~(IsActive(speakers[s]) /\ speakers[s].item = n.item)
          /\ \A m \in Notifications \ {n} : m.item # n.item

\* The track a play command started has ended, and its notification waits,
\* while the command still holds the guild lock to send its response.
C12_Witness ==
    /\ pc["p1"] = "sending"
    /\ guildLock = "p1"
    /\ \E n \in ended : n.item.id = nextId - 1 /\ playing[n.started] = n.item

\* C13: a completion handler that finds the Speaker in another channel than
\* the one the playback was started in, or in no channel, marks the started
\* channel stopped and not active, stops and releases the Speaker, pulls no
\* Item and starts none: the queues, the other channels and every playing
\* Speaker are as before.
C13_MovedSpeakerStops ==
    [][(/\ handling # NoNotification /\ last'.cmd = "ended"
        /\ speakers[handling.speaker].channel # handling.started)
       => /\ last'.status = (IF speakers[handling.speaker].channel = NoChannel
                              THEN "Disconnected" ELSE "Moved")
          /\ stopped'[handling.started]
          /\ playing'[handling.started] = NoItem
          /\ speakers'[handling.speaker] = IdleSpeaker
          /\ last'.yielded = <<>>
          /\ queues' = queues
          /\ \A c \in Channels \ {handling.started} :
                playing'[c] = playing[c] /\ stopped'[c] = stopped[c]
          /\ \A s \in Speakers :
                speakers'[s].state = "Playing" => speakers'[s] = speakers[s]]_vars

\* The Speaker was moved to the channel of a user with Items queued, and the
\* completion handler released it and marked the started channel stopped.
C13_Witness ==
    /\ last.cmd = "ended"
    /\ last.status = "Moved"
    /\ last.channel \in Channels \ {last.started}
    /\ stopped[last.started]
    /\ ~stopped[last.channel]
    /\ speakers[last.speaker] = IdleSpeaker
    /\ \E u \in last.members : queues[u] # <<>>

\* The Items the handler of the step pulled and no Speaker is left playing:
\* the Items whose play failed.
FailedPlays(o) ==
    {it \in ItemsOf(o.yielded) : \A s \in Speakers : speakers'[s].item # it}

\* C14: a play, resume or replace command whose play attempt fails answers
\* with an error, leaves the channel marked stopped and not active, and has
\* made one play attempt: it pulled the one Item, which is neither played nor
\* put back into a queue.
C14_FailedPlaySurfaced ==
    [][\A p \in Procs :
          (/\ pc[p] = "locked" /\ pc'[p] = "idle"
           /\ last'.cmd \in {"play", "resume", "replace"}
           /\ FailedPlays(last') # {})
          => /\ last'.status = "Error"
             /\ stopped'[last'.channel]
             /\ playing'[last'.channel] = NoItem
             /\ Len(last'.yielded) = 1
             /\ \A u \in Users : ItemsOf(queues'[u]) \cap FailedPlays(last') = {}
             /\ \A s \in Speakers :
                   speakers'[s].state = "Playing" => speakers'[s] = speakers[s]]_vars

\* The play of the Item a play command pulled failed while another Item
\* stayed queued: the channel is marked stopped and the command answered
\* with an error.
C14_Witness ==
    /\ last.cmd = "play"
    /\ last.status = "Error"
    /\ Len(last.yielded) = 1
    /\ stopped[last.channel]
    /\ \E u \in last.members : queues[u] # <<>>

\* The Items whose play the handler of the step saw fail: the Item of a
\* command that answers with the error of play, and the Items a completion
\* handler pulled before the one it reports as playing.
SawFail(o) ==
    IF o.cmd = "ended"
    THEN ItemsOf(IF o.status = "Playing" THEN Front(o.yielded) ELSE o.yielded)
    ELSE IF o.status = "Error" THEN ItemsOf(o.yielded) ELSE {}

\* The Speaker a command calls play on: the active one of the channel for
\* replace, the one find_to_play_in returns for play and resume.
AttemptedOn(o) ==
    IF o.cmd = "replace" THEN Pick(FindActiveInChannel(ThePool, o.channel))
    ELSE Pick(FindToPlayInChannel(ThePool, o.channel))

\* All Items queued.
Queued(q) == UNION {ItemsOf(q[u]) : u \in Users}

\* C15: after a handler whose play failed, the Item is held by no Speaker,
\* has no notification and is in no queue, and the Speaker the play was
\* called on is Idle and unbound, unless a later play of the same completion
\* handler succeeded on it.  No callback fires for the Item later either:
\* a notification is spawned only for an Item a Speaker held, a Speaker takes
\* only Items the handler of the step pulled, and Items are pulled from and
\* put into the queues only if they were queued or are newly resolved.
C15_FailedPlayReleases ==
    [][/\ \A it \in SawFail(last') :
             /\ \A s \in Speakers : speakers'[s].item # it
             /\ \A n \in ended' : n.item # it
             /\ it \notin Queued(queues')
       /\ \A p \in Procs :
             (pc[p] = "locked" /\ pc'[p] = "idle" /\ SawFail(last') # {})
             => \A s \in AttemptedOn(last') : speakers'[s] = IdleSpeaker
       /\ (handling # NoNotification /\ SawFail(last') # {})
          => \/ speakers'[handling.speaker] = IdleSpeaker
             \/ /\ last'.status = "Playing"
                /\ speakers'[handling.speaker].item = Last(last'.yielded)
       /\ \A n \in ended' \ ended :
             \E s \in Speakers : IsActive(speakers[s]) /\ speakers[s].item = n.item
       /\ \A s \in Speakers :
             (speakers'[s].item # NoItem /\ speakers'[s].item # speakers[s].item)
             => speakers'[s].item \in ItemsOf(last'.yielded)
       /\ \A it \in ItemsOf(last'.yielded) \cup Queued(queues') :
             it.id >= nextId \/ it \in Queued(queues)]_vars

\* A completion handler saw the plays of two Items fail, found nothing more
\* to play and released the Speaker; no notification is left.
C15_Witness ==
    /\ last.cmd = "ended"
    /\ last.status = "Finished"
    /\ last.tried >= 2
    /\ speakers[last.speaker] = IdleSpeaker
    /\ ended = {}

\* The play or replace command of the step ended because the resolution of
\* its term failed: an unsupported source, no results, or another error.
ResolveFailed(o) ==
    /\ o.cmd \in {"play", "replace"}
    /\ o.status \in {"UnsupportedSiteError", "NoMatchingSongsError", "Error"}
    /\ o.n = 0

\* C16 as the spec states it, for a command decided right after it took the
\* guild lock: when the resolution fails, the Guild Model is what it was
\* before the command, the message channel included.
C16_NoMutation ==
    [][\A p \in Procs :
          (/\ pc[p] = "locked" /\ pc'[p] = "idle"
           /\ last.cmd = "lock" /\ ResolveFailed(last'))
          => /\ <<queues, playing, stopped, cursor, votes>>' =
                   <<queues, playing, stopped, cursor, votes>>
             /\ msgChannel' = last.posted]_vars

\* C16, amended: a command records its message channel in the Guild Model
\* when it takes the guild lock and changes nothing else by that; a play or
\* replace command whose resolution fails then answers with the failure and
\* changes nothing: the queues, the channels' active Items, stop markers and
\* cursors, the votes, the Speakers and the notifications are as before, and
\* no Item was handed out.
C16_OnlyMessageChannel ==
    [][\A p \in Procs :
          /\ (pc[p] = "waiting" /\ pc'[p] = "locked")
             => /\ <<queues, playing, stopped, cursor, votes>>' =
                      <<queues, playing, stopped, cursor, votes>>
                /\ <<speakers, ended, nextId>>' = <<speakers, ended, nextId>>
                /\ msgChannel' \in MsgChannels
          /\ (pc[p] = "locked" /\ pc'[p] = "idle" /\ ResolveFailed(last'))
             => /\ <<queues, playing, stopped, cursor, votes, msgChannel>>' =
                      <<queues, playing, stopped, cursor, votes, msgChannel>>
                /\ <<speakers, ended, nextId>>' = <<speakers, ended, nextId>>
                /\ last'.yielded = <<>>]_vars

\* A replace command sent from the second message channel failed to resolve
\* while the user had an Item queued behind the one playing.
C16_Witness ==
    /\ last.cmd = "replace"
    /\ ResolveFailed(last)
    /\ msgChannel = "m2"
    /\ queues[last.user] # <<>>
    /\ \E c \in Channels : playing[c] # NoItem

\* C17: a skip, stop or replace command that ends with a DesyncError, because
\* it finds no active Speaker for the channel, leaves the queues, the recorded
\* votes and the channels' active and stopped state as they were before it.
C17_DesyncLeavesState ==
    [][\A p \in Procs :
          (/\ pc[p] = "locked" /\ pc'[p] = "idle"
           /\ last'.cmd \in {"skip", "stop", "replace"}
           /\ last'.status = "DesyncError")
          => <<queues, votes, playing, stopped>>' =
                <<queues, votes, playing, stopped>>]_vars

\* A play is successfully started in channel c in the step: a Speaker bound
\* to c plays an Item it did not hold before.
StartedIn(c) ==
    \E s \in Speakers :
        /\ speakers'[s].channel = c
        /\ speakers'[s].state = "Playing"
        /\ speakers'[s].item # NoItem
        /\ speakers'[s].item # speakers[s].item

\* The handler of the step called set_stopped(c): a stop command whose vote
\* passed, or a command whose play failed.
SetStoppedIn(c, o) ==
    /\ o.channel = c
    /\ \/ o.cmd = "stop" /\ o.status = "Stopped"
       \/ o.cmd \in {"play", "resume", "replace"} /\ o.status = "Error"
          /\ o.yielded # <<>>

\* C18: a channel is marked stopped after a handler that called set_stopped
\* for it; a channel marked stopped stays marked through every step that
\* does not successfully start a play in it (enqueues, votes, failed plays,
\* completion handling); and after a step that successfully starts a play
\* in it the channel is not marked stopped.
C18_StoppedUntilPlay ==
    [][\A c \in Channels :
          /\ SetStoppedIn(c, last') => stopped'[c] /\ ~StartedIn(c)
          /\ (stopped[c] /\ ~StartedIn(c)) => stopped'[c]
          /\ StartedIn(c) => ~stopped'[c]]_vars

\* A vote to stop on a channel that is already stopped, with Items queued,
\* found nothing playing and left the channel stopped.
C18_Witness ==
    /\ last.cmd = "stop"
    /\ last.op = "NothingPlaying"
    /\ stopped[last.channel]
    /\ \E u \in Users : queues[u] # <<>>

\* The play or resume command of the step got as far as next_for_channel: the
\* user is in a channel, find_to_play_in gave a Speaker, a play command had
\* resolved its songs and a resume command had found no active Speaker.
ReachesSelection(o) ==
    /\ o.cmd \in {"play", "resume"}
    /\ o.channel # NoChannel
    /\ FindToPlayInChannel(ThePool, o.channel) # {}
    /\ o.cmd = "play" => o.n >= 1
    /\ o.cmd = "resume" => FindActiveInChannel(ThePool, o.channel) = {}

\* C19: a play or resume command that calls next_for_channel for a channel
\* with an active Item gets AlreadyPlaying, and only then; it pulls nothing,
\* calls no play and changes nothing but for the Items the play command
\* appended to its user's sub-queue: the active Items, cursors, stop markers,
\* votes, Speakers and notifications are as before.
C19_AlreadyPlaying ==
    [][\A p \in Procs :
          (pc[p] = "locked" /\ pc'[p] = "idle" /\ ReachesSelection(last'))
          => /\ last'.op = "AlreadyPlaying" <=> playing[last'.channel] # NoItem
             /\ last'.op = "AlreadyPlaying"
                => /\ last'.status = (IF last'.cmd = "play" THEN "Queued"
                                       ELSE "NothingIsQueuedError")
                   /\ last'.yielded = <<>>
                   /\ OnlyEnqueued(last')
                   /\ <<playing, cursor, stopped, votes, speakers, ended>>' =
                         <<playing, cursor, stopped, votes, speakers, ended>>]_vars

\* A play command found a free Speaker for a channel in which another
\* Speaker is playing the active Item, and left its Items queued.
C19_Witness ==
    /\ last.cmd = "play"
    /\ last.op = "AlreadyPlaying"
    /\ last.n >= 1
    /\ Len(queues[last.user]) >= last.n
    /\ \E s \in Speakers :
          /\ speakers[s].channel = last.channel
          /\ speakers[s].state = "Playing"
          /\ speakers[s].item = playing[last.channel]
    /\ \E s \in Speakers : speakers[s] = IdleSpeaker

\* C20: Items are resolved, and so enqueued, in the order of their ids.  A
\* user's sub-queue holds that user's Items in the order they were enqueued;
\* every Item a handler selects was enqueued before all Items left in its
\* user's sub-queue and before the Items of that user the handler selects
\* after it, so that of two Items of one user the earlier one is selected
\* first unless a replace took it out; and a step changes a sub-queue only by
\* taking Items from its head, replacing its last Item (replace) and
\* appending new Items.
C20_InsertionOrder ==
    /\ [](\A u \in Users : \A i \in 1..Len(queues[u]) :
             /\ queues[u][i].user = u
             /\ \A j \in 1..Len(queues[u]) : i < j => queues[u][i].id < queues[u][j].id)
    /\ [][/\ \A i \in 1..Len(last'.yielded) :
                LET it == last'.yielded[i]
                IN /\ \A k \in ItemsOf(queues'[it.user]) : it.id < k.id
                   /\ \A j \in 1..Len(last'.yielded) :
                         (i < j /\ last'.yielded[j].user = it.user)
                         => it.id < last'.yielded[j].id
          /\ \A u \in Users :
               LET kept == {e \in ItemsOf(queues[u]) : e \in ItemsOf(queues'[u])}
                   gone == ItemsOf(queues[u]) \ kept
               IN /\ \A e \in ItemsOf(queues'[u]) \ kept : e.id >= nextId
                  /\ \A e \in gone :
                        \/ e \in ItemsOf(last'.yielded)
                        \/ last'.cmd = "replace" /\ last'.user = u
                           /\ e = last'.old /\ e = Last(queues[u])]_vars

\* An Item of a user was selected while a later Item of the same user and an
\* Item of the other user stay queued.
C20_Witness ==
    /\ last.yielded # <<>>
    /\ LET it == Last(last.yielded)
       IN /\ queues[it.user] # <<>>
          /\ Head(queues[it.user]).id > it.id
          /\ \E v \in Users \ {it.user} : queues[v] # <<>>


\* C21: the vote trackers of a channel are fresh whenever a new Item becomes
\* active in it.  The voters recorded against the active Item have all voted
\* on that Item; a step that makes another Item active leaves both trackers of
\* the channel empty; and a voter's first vote of a kind on the active Item
\* is never answered AlreadyVoted, and counts as the only vote when nobody has
\* voted with that kind on the Item, whatever was recorded against earlier
\* Items.
C21_FreshTrackers ==
    /\ [](\A c \in Channels : \A k \in VoteKinds :
             playing[c] # NoItem => votes[c][k] \subseteq cast[c][k])
    /\ [][\A c \in Channels :
             (playing'[c] # playing[c] /\ playing'[c] # NoItem)
             => votes'[c] = FreshVotes]_vars
    /\ [][Voted(last')
           => LET c == last'.channel
                  k == KindOf(last')
                  u == last'.user
                  needed == VoteThreshold(last'.occ)
              IN /\ (playing[c] # NoItem /\ u \notin cast[c][k])
                    => last'.op \in {"Success", "NeedsMoreVotes"}
                 /\ (playing[c] # NoItem /\ cast[c][k] = {})
                    => IF needed <= 1 THEN last'.op = "Success"
                       ELSE /\ last'.op = "NeedsMoreVotes"
                            /\ last'.count = needed - 1
                            /\ votes'[c][k] = {u}]_vars

\* The completion handler made the next Item active in a channel whose
\* trackers held votes against the Item that ended, and they are empty now.
C21_Witness ==
    /\ last.cmd = "ended"
    /\ last.item # NoItem
    /\ playing[last.channel] = last.item
    /\ last.voters # FreshVotes
    /\ votes[last.channel] = FreshVotes

\* C22: votes are tracked per channel and vote kind.  A skip or stop vote
\* changes no tracker but the one of its own channel and kind, and its answer
\* depends on that tracker alone: AlreadyVoted exactly when the voter is
\* recorded in it, and otherwise Success or NeedsMoreVotes by the count of
\* that tracker, whoever is recorded for the other kind or in another channel.
C22_TrackersApart ==
    [][Voted(last')
       => LET c == last'.channel
              k == KindOf(last')
              u == last'.user
              count == Cardinality(votes[c][k]) + 1
              needed == VoteThreshold(last'.occ)
          IN /\ \A j \in VoteKinds \ {k} : votes'[c][j] = votes[c][j]
             /\ \A d \in Channels \ {c} : votes'[d] = votes[d]
             /\ playing[c] # NoItem
                => IF u \in votes[c][k] THEN last'.op = "AlreadyVoted"
                   ELSE IF count >= needed THEN last'.op = "Success"
                   ELSE /\ last'.op = "NeedsMoreVotes"
                        /\ last'.count = needed - count]_vars

\* A voter recorded for skip and for stop in the first channel votes to skip
\* in the second: the vote is counted, as the only one.
C22_Witness ==
    /\ last.cmd = "skip"
    /\ last.channel = "c2"
    /\ last.op = "NeedsMoreVotes"
    /\ last.count = VoteThreshold(last.occ) - 1
    /\ votes["c2"] = [FreshVotes EXCEPT !["Skip"] = {last.user}]
    /\ votes["c1"] = [k \in VoteKinds |-> {last.user}]
    /\ playing["c1"] # NoItem

\* Item number i is in the sub-queue of user u.
QueuedBy(u, i) == \E j \in 1..Len(queues[u]) : queues[u][j].id = i

\* Item number i was selected for play by the handler that ran in the step.
Selected(i) == \E j \in 1..Len(last.yielded) : last.yielded[j].id = i

\* C23: round robin keeps a user from starving the others.  A selection for
\* a channel never takes an Item of the user served last while another user
\* in the channel has an Item queued; and when the channel is never stopped,
\* every playback ends and every completion is handled, an Item queued by
\* a user who is in the channel is eventually selected for play, whatever the
\* other user queues.
C23_NoStarvation ==
    /\ [][(last'.yielded # <<>> /\ last'.channel # NoChannel)
           => LET c == last'.channel
                  others == {u \in last'.members \ {cursor[c]} :
                                queues'[u] # <<>> /\ queues[u] # <<>>}
              IN others # {} => last'.yielded[1].user # cursor[c]]_vars
    /\ []~stopped["c1"]
    /\ \A u \in Users : \A i \in 1..MaxSongs : QueuedBy(u, i) ~> Selected(i)

\* The completion handler selected the Item of the second user although the
\* first user still has an Item queued that was queued earlier.
C23_Witness ==
    /\ last.cmd = "ended"
    /\ last.status = "Playing"
    /\ last.item.user = "u2"
    /\ queues["u1"] # <<>>
    /\ Head(queues["u1"]).id < last.item.id
    /\ ~stopped["c1"]

\* C25: enqueueing is per user and needs no channel.  A play command of a
\* user who is in no voice channel is answered Queued; it appends exactly the
\* resolved Items to that user's sub-queue, selects nothing, and leaves the
\* channels and the Speakers as they are.  An Item is only ever selected by a
\* handler that acts for a channel, and then for a user it sees in that
\* channel.
C25_EnqueueWithoutChannel ==
    /\ [][(last'.cmd = "play" /\ last'.n >= 1 /\ last'.channel = NoChannel)
           => LET u == last'.user
              IN /\ last'.status = "Queued"
                 /\ OnlyEnqueued(last')
                 /\ \A j \in 1..last'.n :
                       queues'[u][Len(queues[u]) + j] = [id |-> nextId + j - 1,
                                                         user |-> u]
                 /\ last'.yielded = <<>>
                 /\ <<playing, stopped, cursor, votes, speakers, ended>>' =
                       <<playing, stopped, cursor, votes, speakers, ended>>]_vars
    /\ [][\A u \in Users :
             (queues[u] # <<>> /\ Head(queues[u]) \notin ItemsOf(queues'[u])
              /\ last'.old # Head(queues[u]))
             => /\ last'.channel # NoChannel
                /\ u \in last'.members
                /\ Head(queues[u]) \in ItemsOf(last'.yielded)]_vars

\* A user in no voice channel queued two Items while the channel was idle and
\* both Speakers free: the Items wait in the user's sub-queue.
C25_Witness ==
    /\ last.cmd = "play"
    /\ last.channel = NoChannel
    /\ last.status = "Queued"
    /\ last.n = 2
    /\ Len(queues[last.user]) >= 2
    /\ \A c \in Channels : playing[c] = NoItem
    /\ \A s \in Speakers : speakers[s] = IdleSpeaker

\* C26: the message channel is last-write-wins.  Every command records the
\* channel it was sent from when it takes the guild lock, whatever was
\* recorded before, and nothing else changes the record; a completion
\* handler posts to the channel that is recorded when it runs, and to none
\* exactly when none is recorded.
C26_LastWriteWins ==
    /\ [][IF last'.cmd = "lock"
           THEN msgChannel' = last'.dest /\ last'.dest \in MsgChannels
           ELSE msgChannel' = msgChannel]_vars
    /\ [](last.cmd = "ended"
           => /\ last.posted = msgChannel
              /\ last.posted = "none" <=> msgChannel = "none")
    /\ [](handling # NoNotification => msgChannel # "none")

\* A command sent from the second message channel replaced the first as
\* the recorded one while a completion notification was waiting to be handled.
C26_Witness ==
    /\ last.cmd = "lock"
    /\ last.posted = "m1"
    /\ last.dest = "m2"
    /\ msgChannel = "m2"
    /\ ended # {}

\* C27: every command a user can send ends with a response message or with
\* an Error value that becomes an error response; no command handler panics.
C27_NoPanic ==
    [][\A p \in Procs :
          (pc[p] # "idle" /\ pc'[p] = "idle")
          => (last'.status # "panic" /\ last'.status # "-")]_vars

\* C28: whenever no handler holds the guild lock, a channel the Guild Model
\* reports as active has a Speaker bound to it that is playing or paused; and
\* no skip, stop or replace command ends in the desync error.
C28_ModelPoolConsistent ==
    /\ [](guildLock = Free
           => \A c \in Channels :
                 playing[c] # NoItem => FindActiveInChannel(ThePool, c) # {})
    /\ [](last.status # "DesyncError")

\* C29: an Item started by a command is not cut off by the completion of an
\* earlier Item.  When a completion is handled for a channel in which a
\* Speaker is playing or paused again, the handler takes no Item from a
\* sub-queue, and leaves that Speaker and the channel's active Item as they
\* are.
C29_StaleCompletion ==
    [][(last'.cmd = "ended" /\ FindActiveInChannel(ThePool, last'.started) # {})
       => /\ queues' = queues
          /\ playing'[last'.started] = playing[last'.started]
          /\ \A s \in FindActiveInChannel(ThePool, last'.started) :
                speakers'[s] = speakers[s]]_vars

\* C30: strict lock ordering, Guild Model before Pool.  Whoever holds the
\* guild's Speaker Pool lock holds the guild's Guild Model lock too, so a
\* command handler and the completion task never hold one lock each and wait
\* for the other's; nobody acquires the Guild Model lock while holding the
\* pool lock, and the pool lock is only acquired by the holder of the Guild
\* Model lock.
C30_LockOrder ==
    /\ [](poolLock # Free => guildLock = poolLock)
    /\ [][(guildLock' # guildLock /\ guildLock' # Free) => poolLock # guildLock']_vars
    /\ [][(poolLock' # poolLock /\ poolLock' # Free) => guildLock = poolLock']_vars

\* The completion task holds both locks while a command waits for the Guild
\* Model lock.
C30_Witness ==
    /\ guildLock = EndedTask
    /\ poolLock = EndedTask
    /\ pc["p1"] = "waiting"

\* C24: guilds do not block each other.  Whatever locks the handlers of guild
\* A hold, and however long they hold them, a command of guild B that waits
\* for B's Guild Model lock or B's Speaker Pool lock can take it, and every
\* command of B that was received returns; B's steps change nothing of A.
C24_GuildsApart ==
    /\ [](other.pc = "waiting" => ENABLED OtherLockGuild)
    /\ [](other.pc = "locked" => ENABLED OtherLockPool)
    /\ (other.pc = "waiting" ~> other.pc = "pooled")
    /\ (other.pc = "pooled" ~> other.pc = "idle")
    /\ [][other' # other => UNCHANGED <<model, pool, guildLock, poolLock, pc,
                                        handling, msgChannel>>]_vars

\* A command of guild A and a command of guild B hold both locks of their
\* guilds at once.
C24_Witness ==
    /\ guildLock = "p1"
    /\ poolLock = "p1"
    /\ other.pc = "pooled"
    /\ other.model = "B"
    /\ other.pool = "B"

\* The Item a replace command of the step displaced from its user's sub-queue.
Displaced(o) ==
    IF o.cmd = "replace" /\ o.op = "ReplacedInQueue" THEN {o.old} ELSE {}

\* No Item is in two places of the sub-queues.
NoDuplicates(q) ==
    /\ \A u \in Users : \A i, j \in 1..Len(q[u]) : q[u][i] = q[u][j] => i = j
    /\ \A u, v \in Users : u # v => ItemsOf(q[u]) \cap ItemsOf(q[v]) = {}

\* C31: Item conservation.  No Item is queued twice, and a queued Item is on
\* no Speaker.  In every step the Items passed to play are distinct, were
\* queued or newly resolved, and are queued no more afterwards, so that none
\* is passed to play again; the Items that enter the sub-queues are newly
\* resolved; and an Item leaves the sub-queues only if the handler of the
\* step passed it to play or it was displaced by replace_latest.
C31_ItemConservation ==
    /\ [](NoDuplicates(queues))
    /\ [](\A s \in Speakers : speakers[s].item \notin Queued(queues))
    /\ [][/\ \A i, j \in 1..Len(last'.yielded) :
                last'.yielded[i] = last'.yielded[j] => i = j
          /\ \A it \in ItemsOf(last'.yielded) :
                /\ it \in Queued(queues) \/ it.id >= nextId
                /\ it \notin Queued(queues')
                /\ it.id < nextId'
          /\ \A it \in Queued(queues') \ Queued(queues) :
                it.id >= nextId /\ it.id < nextId'
          /\ Queued(queues) \ Queued(queues')
                \subseteq ItemsOf(last'.yielded) \cup Displaced(last')]_vars

\* A replace command displaced the user's latest queued Item, which is queued
\* no more, and queued its own in its place while another Item was playing.
C31_Witness ==
    /\ last.cmd = "replace"
    /\ last.op = "ReplacedInQueue"
    /\ last.old # NoItem
    /\ last.old \notin Queued(queues)
    /\ \E s \in Speakers : speakers[s].state = "Playing"
    /\ queues[last.user] # <<>>
    /\ Last(queues[last.user]).id > last.old.id

\* The replace command of the step got ReplacedCurrent and started the next
\* Item on the Speaker that was active in the channel.
ReplacedCurrent(o) ==
    /\ o.cmd = "replace"
    /\ o.op = "ReplacedCurrent"
    /\ o.status = "Playing"

\* C32: a replace command that gets ReplacedCurrent and starts the next Item
\* on the active Speaker of the channel dequeues exactly one Item and leaves
\* exactly one Item playing in the channel; and when the completion of an
\* Item that was displaced on a Speaker is handled while the Speaker plays
\* another Item, the handler dequeues nothing and leaves the Speaker and the
\* channel's active Item as they are.
C32_ReplaceCurrent ==
    [][/\ \A p \in Procs :
             (pc[p] = "locked" /\ pc'[p] = "idle" /\ ReplacedCurrent(last'))
             => /\ Len(last'.yielded) = 1
                /\ Cardinality(Queued(queues') \cup ItemsOf(last'.yielded))
                      = Cardinality(Queued(queues)) + last'.n
                /\ playing'[last'.channel] = last'.item
                /\ \E s \in Speakers :
                      /\ FindActiveInChannel([speakers |-> speakers', ended |-> ended'],
                                             last'.channel) = {s}
                      /\ speakers'[s].item = last'.item
                      /\ speakers'[s].state = "Playing"
       /\ (/\ handling # NoNotification /\ last'.cmd = "ended"
           /\ IsActive(speakers[handling.speaker])
           /\ speakers[handling.speaker].item # handling.item)
          => /\ queues' = queues
             /\ speakers'[handling.speaker] = speakers[handling.speaker]
             /\ playing' = playing]_vars

C34_FinishedFreesChannel ==
    [][/\ (handling # NoNotification /\ last'.cmd = "ended"
           /\ last'.status = "Finished")
          => /\ AtRest(GM', last'.channel)
             /\ speakers'[last'.speaker] = IdleSpeaker
             /\ \A u \in last'.members : queues'[u] = <<>>
       /\ \A c \in Channels :
             (AtRest(GM, c) /\ ~AtRest(GM', c))
             => \/ stopped'[c]
                \/ (last'.yielded # <<>> /\ last'.channel = c)
       /\ \A p \in Procs :
             (/\ pc[p] = "locked" /\ pc'[p] = "idle"
              /\ last'.cmd = "play" /\ last'.resting
              /\ ReachesSelection(last'))
             => /\ last'.op = "Entry"
                /\ last'.status \in {"Playing", "Error"}
                /\ last'.status = "Playing"
                     => /\ StartedIn(last'.channel)
                        /\ playing'[last'.channel] = last'.item
                        /\ last'.item \notin Queued(queues')]_vars

\* A play command found its channel at rest, after a completion handler had
\* reported Finished there, and started its Item at once.
C34_Witness ==
    /\ last.cmd = "play"
    /\ last.resting
    /\ last.op = "Entry"
    /\ last.status = "Playing"
    /\ last.n = 1
    /\ playing[last.channel] = last.item
    /\ last.item.id = nextId - 1

\* The skip or stop command of the step stopped the Speaker s: the Speaker was
\* playing or paused, is Idle and still bound, and the notification of its
\* playback is spawned.
StoppedSpeaker(s) ==
    /\ IsActive(speakers[s])
    /\ speakers'[s] = [speakers[s] EXCEPT !.state = "Idle", !.item = NoItem,
                                          !.started = NoChannel]
    /\ ended' = ended \cup {[speaker |-> s, started |-> speakers[s].started,
                              item |-> speakers[s].item]}

\* C35: skip advances, stop halts.  A skip whose vote succeeds stops the
\* Speaker of the channel and leaves the stop marker, the active Item and the
\* queues as they are; a stop whose vote succeeds marks the channel stopped
\* and not active and stops the Speaker.  A completion handler that finds the
\* channel of its Speaker not marked stopped, the membership lookup working
\* and an Item queued that is reachable, pulls Items until one plays on the
\* Speaker or none is left; one that finds the channel marked stopped pulls
\* nothing, starts nothing and releases the Speaker.
C35_SkipAdvancesStopHalts ==
    [][/\ \A p \in Procs :
             (pc[p] = "locked" /\ pc'[p] = "idle" /\ last'.cmd = "skip"
              /\ last'.status = "Skipped")
             => /\ last'.op = "Success"
                /\ \E s \in FindActiveInChannel(ThePool, last'.channel) :
                      StoppedSpeaker(s)
                /\ <<queues, playing, stopped, cursor>>' =
                      <<queues, playing, stopped, cursor>>
       /\ \A p \in Procs :
             (pc[p] = "locked" /\ pc'[p] = "idle" /\ last'.cmd = "stop"
              /\ last'.op = "Success" /\ last'.status # "DesyncError")
             => /\ last'.status = "Stopped"
                /\ \E s \in FindActiveInChannel(ThePool, last'.channel) :
                      StoppedSpeaker(s)
                /\ stopped'[last'.channel]
                /\ playing'[last'.channel] = NoItem
                /\ queues' = queues
       /\ (/\ handling # NoNotification /\ last'.cmd = "ended"
           /\ last'.channel = handling.started
           /\ ~stopped[handling.started]
           /\ last'.status # "Error"
           /\ \E u \in last'.members : queues[u] # <<>>)
          => /\ last'.tried >= 1
             /\ last'.status \in {"Playing", "Finished"}
             /\ last'.status = "Playing"
                  => /\ speakers'[handling.speaker].state = "Playing"
                     /\ speakers'[handling.speaker].item = last'.item
                     /\ last'.item \in Queued(queues) \ Queued(queues')
                     /\ playing'[handling.started] = last'.item
             /\ last'.status = "Finished"
                  => \A u \in last'.members : queues'[u] = <<>>
       /\ (/\ handling # NoNotification /\ last'.cmd = "ended"
           /\ last'.channel = handling.started
           /\ stopped[handling.started])
          => /\ last'.status = "Stopped"
             /\ last'.yielded = <<>>
             /\ queues' = queues
             /\ \A c \in Channels : ~StartedIn(c)
             /\ speakers'[handling.speaker] = IdleSpeaker
             /\ stopped'[handling.started]]_vars

\* The completion of an Item that was skipped is handled: the next queued Item
\* plays on the Speaker.
C35_Witness ==
    /\ last.cmd = "ended"
    /\ last.status = "Playing"
    /\ last.old # NoItem
    /\ last.item.id = last.old.id + 1
    /\ speakers[last.speaker].item = last.item
    /\ ~stopped[last.channel]

\* C36: pause is called only on a Speaker that is playing, and unpause only
\* on one that is paused.  A Speaker becomes paused only from playing, by a
\* pause command that answers Paused, and keeps its Item; a pause command
\* answers Paused only when the active Speaker of the channel was playing; a
\* paused Speaker goes back to playing its Item only by a resume command that
\* found it paused; and a pause command that finds no Speaker or a paused
\* one, or a resume command that finds a Speaker playing, changes no Speaker
\* and spawns no notification.
C36_PauseUnpausePreconditions ==
    [][/\ \A s \in Speakers :
             /\ (speakers'[s].state = "Paused" /\ speakers[s].state # "Paused")
                => /\ speakers[s].state = "Playing"
                   /\ speakers'[s] = [speakers[s] EXCEPT !.state = "Paused"]
                   /\ last'.cmd = "pause" /\ last'.status = "Paused"
                   /\ speakers[s].channel = last'.channel
             /\ (speakers[s].state = "Paused" /\ speakers'[s].state = "Playing"
                 /\ speakers'[s].item = speakers[s].item)
                => /\ last'.cmd = "resume" /\ last'.op = "Unpaused"
                   /\ speakers'[s] = [speakers[s] EXCEPT !.state = "Playing"]
                   /\ speakers[s].channel = last'.channel
       /\ \A p \in Procs :
             (pc[p] = "locked" /\ pc'[p] = "idle")
             => /\ (last'.cmd = "pause" /\ last'.status = "Paused")
                   => \E s \in FindActiveInChannel(ThePool, last'.channel) :
                         speakers[s].state = "Playing" /\ speakers'[s].state = "Paused"
                /\ (last'.cmd = "resume" /\ last'.op = "Unpaused")
                   => \E s \in FindActiveInChannel(ThePool, last'.channel) :
                         speakers[s].state = "Paused" /\ speakers'[s].state = "Playing"
                /\ (\/ last'.cmd = "pause" /\ last'.status # "Paused"
                    \/ last'.cmd = "resume" /\ last'.status = "AlreadyPlayingError")
                   => <<speakers, ended>>' = <<speakers, ended>>]_vars

\* A resume command unpaused the Speaker another command had paused, while a
\* further command waits for the guild lock.
C36_Witness ==
    /\ last.cmd = "resume"
    /\ last.op = "Unpaused"
    /\ \E s \in Speakers : speakers[s].state = "Playing" /\ speakers[s].item = last.item
    /\ \E p \in Procs : pc[p] = "waiting"

\* The ids of the Items the last play command enqueued.
LastEnqueued(n) == (nextId - n)..(nextId - 1)

\* C37 as the spec states it: a skip or stop command leaves the sub-queues as
\* they are, and every Item of an enqueue whose resolution was in flight when
\* the command was issued is in the queue after the command.
C37_InFlightStaysQueued ==
    [][\A p \in Procs :
          (pc[p] = "locked" /\ pc'[p] = "idle" /\ last'.cmd \in {"skip", "stop"})
          => /\ queues' = queues
             /\ \A k \in LastEnqueued(last'.flight) :
                   \E it \in Queued(queues') : it.id = k]_vars

\* C37, amended: a skip or stop command leaves the sub-queues and the round
\* robin cursor as they are; a play command, decided while another command
\* waits or not, appends every Item it resolved to its user's sub-queue and
\* takes out at most the one it passes to play itself; so every Item of an
\* enqueue that was in flight when the skip or stop was issued is in the
\* queue after it, unless a handler selected it for a play attempt before.
C37_StopSkipKeepQueues ==
    [][\A p \in Procs :
          (pc[p] = "locked" /\ pc'[p] = "idle")
          => /\ last'.cmd \in {"skip", "stop"}
                => /\ queues' = queues
                   /\ cursor' = cursor
                   /\ \A k \in LastEnqueued(last'.flight) :
                         \/ \E it \in Queued(queues') : it.id = k
                         \/ \A it \in Queued(queues) : it.id # k
             /\ (last'.cmd = "play" /\ last'.n >= 1)
                => /\ \A k \in nextId..(nextId + last'.n - 1) :
                         [id |-> k, user |-> last'.user]
                            \in Queued(queues') \cup ItemsOf(last'.yielded)
                   /\ Queued(queues) \ Queued(queues') \subseteq ItemsOf(last'.yielded)
                   /\ Len(last'.yielded) <= 1
                   /\ \A u \in Users :
                         \/ IsPrefix(queues[u], queues'[u])
                         \/ /\ queues[u] # <<>>
                            /\ last'.yielded = <<Head(queues[u])>>
                            /\ IsPrefix(Tail(queues[u]), queues'[u])]_vars

\* A stop issued while a play that resolved two Items was in flight stopped
\* the first of them, which the play had started; the second is still queued.
C37_Witness ==
    /\ last.cmd = "stop"
    /\ last.status = "Stopped"
    /\ last.flight = 2
    /\ last.item.id = nextId - 2
    /\ \E it \in Queued(queues) : it.id = nextId - 1

RECURSIVE SumLen(_, _)
\* The number of Items in the sub-queues q of the users U.
SumLen(q, U) ==
    IF U = {} THEN 0
    ELSE LET u == CHOOSE v \in U : TRUE
         IN Len(q[u]) + SumLen(q, U \ {u})

\* C38: the completion retry loop terminates.  A completion handler always
\* has an outcome; one that reaches the loop makes at most as many play
\* attempts as Items were queued by the members of the channel, takes one
\* Item out of the sub-queues for each attempt, and ends either with the
\* Speaker playing the last Item it took or, every reachable Item taken, with
\* the Speaker stopped and released and Finished reported.
C38_RetryLoopTerminates ==
    /\ [](handling # NoNotification => ENABLED EndedDecideIn(Users))
    /\ [][(handling # NoNotification /\ last'.cmd = "ended")
          => /\ last'.status \in {"Playing", "Finished", "Stopped", "Moved",
                                  "Disconnected", "Error"}
             /\ last'.tried = Len(last'.yielded)
             /\ last'.tried <= SumLen(queues, last'.members)
             /\ SumLen(queues', Users) = SumLen(queues, Users) - last'.tried
             /\ last'.status \notin {"Playing", "Finished"} => last'.tried = 0
             /\ last'.status = "Playing"
                  => /\ last'.tried >= 1
                     /\ speakers'[handling.speaker].state = "Playing"
                     /\ speakers'[handling.speaker].item = Last(last'.yielded)
             /\ last'.status = "Finished"
                  => /\ last'.tried = SumLen(queues, last'.members)
                     /\ speakers'[handling.speaker] = IdleSpeaker
                     /\ \A u \in last'.members : queues'[u] = <<>>]_vars

\* A completion handler tried every Item the members of the channel had
\* queued, two or more, saw each play fail and reported Finished; what a user
\* outside the channel has queued stays queued.
C38_Witness ==
    /\ last.cmd = "ended"
    /\ last.status = "Finished"
    /\ last.tried >= 2
    /\ \E u \in Users \ last.members : queues[u] # <<>>
    /\ \A u \in last.members : queues[u] = <<>>

\* C39: the Speaker Pool lock is never held across a media resolution.  While
\* a command is suspended in the resolution of its term nobody holds the pool
\* lock; no task starts a resolution while it holds the pool lock; and a task
\* that takes the pool lock is not resolving and, if its command resolves a
\* term, has the resolution behind it when it decides with the lock.
C39_NoResolutionUnderPoolLock ==
    /\ [](\A p \in Procs : pc[p] = "resolving" => poolLock = Free)
    /\ [][\A p \in Procs :
            /\ (pc[p] # "resolving" /\ pc'[p] = "resolving") => poolLock # p
            /\ (poolLock # p /\ poolLock' = p) => pc[p] \in {"resolved", "locked"}
            /\ (poolLock = p /\ pc'[p] = "idle" /\ last'.cmd \in {"play", "replace"})
               => pc[p] = "resolved"]_vars

\* A command whose resolution has returned holds the guild lock and the pool
\* lock, after an earlier play command of the same task enqueued an Item.
C39_Witness ==
    /\ pc["p1"] = "resolved"
    /\ poolLock = "p1"
    /\ guildLock = "p1"
    /\ nextId >= 2

\* C40: the deferred acknowledgement race.  When the result of a command is
\* sent and the cancel signal can no longer be delivered, the deferred response
\* has been created and the result is sent as an edit; otherwise the result is
\* sent as a new response and no deferred response is ever created.  Every
\* command ends with exactly one response created.
C40_DeferredAckRace ==
    /\ [][\A p \in Procs :
            (ack[p].sent = "none" /\ ack'[p].sent # "none") =>
                IF ack[p].rx = "dropped"
                THEN ack[p].deferred = "done" /\ ack[p].shown
                     /\ ack'[p].sent = "edit"
                ELSE ack'[p].sent = "create"]_vars
    /\ [](\A p \in Procs : ack[p].sent = "create" => ~ack[p].shown)
    /\ [](\A p \in Procs :
            (ack[p].sent # "none" /\ ack[p].deferred = "done") =>
                (ack[p].shown <=> ack[p].sent = "edit"))

====
